---- MODULE Spec2Model ----
(***************************************************************************)
(* Model of the note reconciliation backend (app/main.py, app/ai_bridge.py)*)
(*                                                                         *)
(* Texts are sequences of characters (one string per character), so that   *)
(* lower-casing, whitespace folding, substring containment and the         *)
(* time-of-day regular expression are computed character by character as   *)
(* the Python code does.                                                    *)
(***************************************************************************)
EXTENDS Integers, Sequences, FiniteSets, TLC

VARIABLES
    simA, simB, simOut,          \* one call of _similar(a, b) and its result
    fireText, fireNow, fireOut,  \* one call of _auto_fire_at(note_text) at datetime.now()
    fireFrag,                    \* the time-of-day fragment fireText was written with
    entries,                     \* table InboxEntry, in the order the store iterates it
    reminders,                   \* table Reminder
    summaries,                   \* table GroupSummary
    nextEntryId, nextReminderId, \* the keys the store gives next
    clock,                       \* the wall clock: the value of datetime.now()
    req,                         \* the add_note requests in flight: their local variables
    hist,                        \* the calls made and the responses returned, in order
    workload,                    \* the requests the clients make in this run
    poll,                        \* the scheduler's run of _check_reminders: its local variables
    delAi, delOut                \* one call of _entries_matching_delete(ai, db) and its result

simVars   == <<simA, simB, simOut>>
fireVars  == <<fireText, fireNow, fireOut, fireFrag>>
storeVars == <<entries, reminders, summaries, nextEntryId, nextReminderId>>
delVars   == <<delAi, delOut>>
pureVars  == <<simVars, fireVars, delVars>>
appVars   == <<storeVars, clock, req, hist, workload, poll>>
vars      == <<pureVars, appVars>>

\* Python's Optional values: None is the empty sequence, a value x is <<x>>
None == <<>>
Some(x) == <<x>>

(***************************************************************************)
(* Characters and strings                                                  *)
(***************************************************************************)
UpperChars == <<"A","B","C","D","E","F","G","H","I","J","K","L","M",
                "N","O","P","Q","R","S","T","U","V","W","X","Y","Z">>
LowerChars == <<"a","b","c","d","e","f","g","h","i","j","k","l","m",
                "n","o","p","q","r","s","t","u","v","w","x","y","z">>
\* "n~", "e'" and "a'" stand for the single characters U+00F1, U+00E9 and U+00E1
\* (written '\xf1', '\xe9', '\xe1' in the source)
AccentChars == {"n~", "e'", "a'"}
DigitChars == <<"0","1","2","3","4","5","6","7","8","9">>

\* str.lower() on one character
LowerChar(c) ==
    IF \E i \in 1..Len(UpperChars) : UpperChars[i] = c
    THEN LowerChars[CHOOSE i \in 1..Len(UpperChars) : UpperChars[i] = c]
    ELSE c

\* str.lower()
Lower(s) == [i \in 1..Len(s) |-> LowerChar(s[i])]

\* the characters matched by \s
IsSpace(c) == c \in {" ", "\t", "\n"}

\* the characters matched by \d
IsDigit(c) == \E i \in 1..Len(DigitChars) : DigitChars[i] = c

\* int() of one digit character
DigitVal(c) == (CHOOSE i \in 1..Len(DigitChars) : DigitChars[i] = c) - 1

\* the characters matched by \w (str patterns are Unicode-aware)
IsWordChar(c) ==
    \/ \E i \in 1..Len(LowerChars) : LowerChars[i] = c \/ UpperChars[i] = c
    \/ IsDigit(c)
    \/ c = "_"
    \/ c \in AccentChars

RECURSIVE LStrip(_)
LStrip(s) == IF s # <<>> /\ IsSpace(Head(s)) THEN LStrip(Tail(s)) ELSE s

RECURSIVE RStrip(_)
RStrip(s) ==
    IF s # <<>> /\ IsSpace(s[Len(s)]) THEN RStrip(SubSeq(s, 1, Len(s) - 1)) ELSE s

\* str.strip()
Strip(s) == RStrip(LStrip(s))

\* re.sub(r'\s+', ' ', s)
RECURSIVE CollapseSpaces(_)
CollapseSpaces(s) ==
    IF s = <<>> THEN <<>>
    ELSE IF IsSpace(Head(s)) THEN <<" ">> \o CollapseSpaces(LStrip(s))
    ELSE <<Head(s)>> \o CollapseSpaces(Tail(s))

\* Python's  p in s  on strings
Contains(s, p) ==
    \E i \in 0..(Len(s) - Len(p)) : SubSeq(s, i + 1, i + Len(p)) = p

\* str.startswith at an offset: p occurs in s at position i (1-based)
OccursAt(s, i, p) ==
    /\ i >= 1
    /\ i + Len(p) - 1 <= Len(s)
    /\ SubSeq(s, i, i + Len(p) - 1) = p

(***************************************************************************)
(* Fuzzy matcher                                                           *)
(***************************************************************************)
_normalize(s) == CollapseSpaces(Strip(Lower(s)))

_similar(a, b) ==
    LET na == _normalize(a)
        nb == _normalize(b)
    IN  na = nb \/ (Len(na) > 3 /\ (Contains(nb, na) \/ Contains(na, nb)))

ai_bridge_normalize(s) == CollapseSpaces(Strip(Lower(s)))

ai_bridge_similar(a, b) ==
    LET na == ai_bridge_normalize(a)
        nb == ai_bridge_normalize(b)
    IN  na = nb \/ (Len(na) > 3 /\ (Contains(nb, na) \/ Contains(na, nb)))

(***************************************************************************)
(* Temporal extractor                                                      *)
(***************************************************************************)
\* \b before position k (between s[k-1] and s[k]; k = Len(s)+1 is the end)
WordBoundary(s, k) ==
    LET before == k > 1 /\ k - 1 <= Len(s) /\ IsWordChar(s[k - 1])
        after  == k >= 1 /\ k <= Len(s) /\ IsWordChar(s[k])
    IN  before # after

\* the position reached by a greedy \s* from position k
RECURSIVE SkipSpaces(_, _)
SkipSpaces(s, k) ==
    IF k <= Len(s) /\ IsSpace(s[k]) THEN SkipSpaces(s, k + 1) ELSE k

DigitsAt(s, h, nd) ==
    /\ h + nd - 1 <= Len(s)
    /\ \A d \in h..(h + nd - 1) : IsDigit(s[d])

\* int() of a run of decimal digits
RECURSIVE ParseInt(_)
ParseInt(ds) ==
    IF ds = <<>> THEN 0
    ELSE 10 * ParseInt(SubSeq(ds, 1, Len(ds) - 1)) + DigitVal(ds[Len(ds)])

\* the rest of the pattern from position q:  \s*(?:h(?:oras?)?)?\b
TimeTailMatches(s, q) ==
    \E e \in q..SkipSpaces(s, q) :
        \E suf \in {<<>>, <<"h">>, <<"h","o","r","a">>, <<"h","o","r","a","s">>} :
            /\ OccursAt(s, e, suf)
            /\ WordBoundary(s, e + Len(suf))

\* (?:[:.h](\d{2}))? taken at position p
MinuteGroupAt(s, p) ==
    /\ p <= Len(s)
    /\ s[p] \in {":", ".", "h"}
    /\ DigitsAt(s, p + 1, 2)

\* _TIME_IN_NOTE_RE matched at position i of the lower-cased text: the groups
\* (1) and (2) of the first alternative the backtracking matcher accepts
\* (two hour digits before one, the minute group before its omission), or None;
\* an unmatched group (2) is the empty text
TimeMatchAt(s, i) ==
    LET j  == SkipSpaces(s, i + 1)
        k0 == j + 2
        k1 == IF k0 <= Len(s) /\ s[k0] = "s" THEN k0 + 1 ELSE k0
        h  == SkipSpaces(s, k1)
        prefix ==
            /\ i <= Len(s) /\ s[i] = "a" /\ WordBoundary(s, i)
            /\ j > i + 1
            /\ OccursAt(s, j, <<"l", "a">>)
            /\ h > k1
        WithMin(nd) ==
            /\ DigitsAt(s, h, nd)
            /\ MinuteGroupAt(s, h + nd)
            /\ TimeTailMatches(s, h + nd + 3)
        NoMin(nd) ==
            /\ DigitsAt(s, h, nd)
            /\ TimeTailMatches(s, h + nd)
        Groups(nd, withMin) ==
            Some([g1 |-> SubSeq(s, h, h + nd - 1),
                  g2 |-> IF withMin THEN SubSeq(s, h + nd + 1, h + nd + 2) ELSE <<>>])
    IN  IF ~prefix THEN None
        ELSE IF WithMin(2) THEN Groups(2, TRUE)
        ELSE IF NoMin(2)   THEN Groups(2, FALSE)
        ELSE IF WithMin(1) THEN Groups(1, TRUE)
        ELSE IF NoMin(1)   THEN Groups(1, FALSE)
        ELSE None

\* _TIME_IN_NOTE_RE.search(s): the leftmost match, or None
_TIME_IN_NOTE_RE(s) ==
    LET starts == {i \in 1..Len(s) : TimeMatchAt(s, i) # None}
    IN  IF starts = {} THEN None
        ELSE TimeMatchAt(s, CHOOSE i \in starts : \A k \in starts : i <= k)

_WEEKDAYS_BACKEND ==
    << [name |-> <<"l","u","n","e","s">>,                      num |-> 0],
       [name |-> <<"m","a","r","t","e","s">>,                  num |-> 1],
       [name |-> <<"m","i","e","r","c","o","l","e","s">>,      num |-> 2],
       [name |-> <<"m","i","e'","r","c","o","l","e","s">>,     num |-> 2],
       [name |-> <<"j","u","e","v","e","s">>,                  num |-> 3],
       [name |-> <<"v","i","e","r","n","e","s">>,              num |-> 4],
       [name |-> <<"s","a","b","a","d","o">>,                  num |-> 5],
       [name |-> <<"s","a'","b","a","d","o">>,                 num |-> 5],
       [name |-> <<"d","o","m","i","n","g","o">>,              num |-> 6] >>

\* A datetime is [day, hour, minute, second]: day counts days from a Monday, so
\* that weekday() is day % 7; second also stands for the microseconds
Weekday(dt) == dt.day % 7

\* seconds since day 0, the order of datetimes
Seconds(dt) == ((dt.day * 24 + dt.hour) * 60 + dt.minute) * 60 + dt.second

\* dt + timedelta(days=n)
PlusDays(dt, n) == [dt EXCEPT !.day = @ + n]

\* DayOffset without the roll to next week when today is the named weekday
DayOffset_SameDay(text_l, now) ==
    LET hits == {w \in 1..Len(_WEEKDAYS_BACKEND) :
                    Contains(text_l, _WEEKDAYS_BACKEND[w].name)}
    IN  IF \/ Contains(text_l, <<"m","a","n~","a","n","a">>)
           \/ Contains(text_l, <<"m","a","n","a","n","a">>)
        THEN Some(1)
        ELSE IF hits # {}
        THEN LET w == CHOOSE x \in hits : \A y \in hits : x <= y
             IN  Some((_WEEKDAYS_BACKEND[w].num - Weekday(now)) % 7)
        ELSE None

\* lines 52-62 of _auto_fire_at: the day offset, or None
DayOffset(text_l, now) ==
    LET hits == {w \in 1..Len(_WEEKDAYS_BACKEND) :
                    Contains(text_l, _WEEKDAYS_BACKEND[w].name)}
    IN  IF \/ Contains(text_l, <<"m","a","n~","a","n","a">>)
           \/ Contains(text_l, <<"m","a","n","a","n","a">>)
        THEN Some(1)
        ELSE IF \/ Contains(text_l, <<"p","a","s","a","d","o"," ","m","a","n~","a","n","a">>)
                \/ Contains(text_l, <<"p","a","s","a","d","o"," ","m","a","n","a","n","a">>)
        THEN Some(2)
        ELSE IF hits # {}
        THEN LET w    == CHOOSE x \in hits : \A y \in hits : x <= y
                 diff == (_WEEKDAYS_BACKEND[w].num - Weekday(now)) % 7
             IN  Some(IF diff > 0 THEN diff ELSE 7)
        ELSE None

\* FireTarget rolling to tomorrow only when the time of day is strictly past
FireTarget_StrictlyPast(now, hour, minute, day_offset) ==
    LET target == [now EXCEPT !.hour = hour, !.minute = minute, !.second = 0]
    IN  IF day_offset # None THEN PlusDays(target, day_offset[1])
        ELSE IF Seconds(target) < Seconds(now) THEN PlusDays(target, 1)
        ELSE target

\* lines 64-69 of _auto_fire_at: the datetime returned
FireTarget(now, hour, minute, day_offset) ==
    LET target == [now EXCEPT !.hour = hour, !.minute = minute, !.second = 0]
    IN  IF day_offset # None THEN PlusDays(target, day_offset[1])
        ELSE IF Seconds(target) <= Seconds(now) THEN PlusDays(target, 1)
        ELSE target

\* _auto_fire_at without the range check of line 47
_auto_fire_at_Unchecked(note_text, now) ==
    LET m == _TIME_IN_NOTE_RE(Lower(note_text))
    IN  IF m = None THEN None
        ELSE
        LET hour   == ParseInt(m[1].g1)
            minute == IF m[1].g2 # <<>> THEN ParseInt(m[1].g2) ELSE 0
        IN  Some(FireTarget(now, hour, minute, DayOffset(Lower(note_text), now)))

\* _auto_fire_at(note_text, now), lines 39-69: None, or the datetime
_auto_fire_at(note_text, now) ==
    LET m == _TIME_IN_NOTE_RE(Lower(note_text))
    IN  IF m = None THEN None
        ELSE
        LET hour   == ParseInt(m[1].g1)
            minute == IF m[1].g2 # <<>> THEN ParseInt(m[1].g2) ELSE 0
        IN  IF ~(0 <= hour /\ hour <= 23 /\ 0 <= minute /\ minute <= 59) THEN None
            ELSE
            Some(FireTarget(now, hour, minute, DayOffset(Lower(note_text), now)))

(***************************************************************************)
(* Add pipeline: the pure steps                                            *)
(***************************************************************************)
\* a NULL column, an absent key of the provider's dict: read by the code
\* through  x or ""  (Python) or compared by the store (SQL, where NULL = ''
\* is not true)
NULL == <<"NULL">>

\* Python's  x or ""  on an optional text
OrEmpty(x) == IF x = NULL THEN <<>> ELSE x

\* _TIME_FIX_RE matched at position i: the end of the match and the groups, or None
TimeFixAt(s, i) ==
    LET At(nd) ==
            /\ DigitsAt(s, i, nd)
            /\ i + nd <= Len(s) /\ s[i + nd] = " "
            /\ DigitsAt(s, i + nd + 1, 2)
            /\ WordBoundary(s, i + nd + 3)
        M(nd) == Some([g1 |-> SubSeq(s, i, i + nd - 1),
                       g2 |-> SubSeq(s, i + nd + 1, i + nd + 2),
                       end |-> i + nd + 3])
    IN  IF ~WordBoundary(s, i) THEN None
        ELSE IF At(2) THEN M(2)
        ELSE IF At(1) THEN M(1)
        ELSE None

\* _TIME_FIX_RE.sub(_repl, text) from position i on
RECURSIVE FixTimeFrom(_, _)
FixTimeFrom(s, i) ==
    IF i > Len(s) THEN <<>>
    ELSE LET m == TimeFixAt(s, i)
         IN  IF m = None THEN <<s[i]>> \o FixTimeFrom(s, i + 1)
             ELSE LET h  == ParseInt(m[1].g1)
                      mn == ParseInt(m[1].g2)
                  IN  (IF 0 <= h /\ h <= 23 /\ 0 <= mn /\ mn <= 59
                       THEN m[1].g1 \o <<":">> \o m[1].g2
                       ELSE SubSeq(s, i, m[1].end - 1))
                      \o FixTimeFrom(s, m[1].end)

_fix_time_colons(text) == FixTimeFrom(text, 1)

\* the alternatives of _CMD_VERBS, lower-cased; "a~" and "+-" stand for the
\* characters U+00E3 and U+00B1 of the class [Ã±n] under IGNORECASE
CmdVerbs ==
    { <<"a","a~","a","d","e">>, <<"a","+-","a","d","e">>, <<"a","n","a","d","e">>,
      <<"a","g","r","e","g","a">>, <<"c","r","e","a">>, <<"a","b","r","e">>,
      <<"a","a~","a","d","i","r">>, <<"a","+-","a","d","i","r">>, <<"a","n","a","d","i","r">>,
      <<"a","g","r","e","g","a","r">>, <<"c","r","e","a","r">>, <<"a","b","r","i","r">>,
      <<"p","o","n">>, <<"p","o","n","e","r">>, <<"m","e","t","e">>, <<"m","e","t","e","r">> }

\* _CMD_VERBS.match(s)
_CMD_VERBS(s) ==
    \E v \in CmdVerbs : OccursAt(Lower(s), 1, v) /\ WordBoundary(s, Len(v) + 1)

\* tags as the Add pipeline writes them: "group" or "group,subgroup"
ai_result_to_entry_fields(ai) ==
    LET idea     == OrEmpty(ai.idea)
        group    == OrEmpty(ai.group)
        subgroup == OrEmpty(ai.subgroup)
    IN  [summary |-> idea,
         tags    |-> IF subgroup # <<>> THEN group \o <<",">> \o subgroup ELSE group]

\* lines 275-292 of _process_single_ai: the summary kept and the content stored
AddFields(ai, note) ==
    LET fields   == ai_result_to_entry_fields(ai)
        summary0 == _fix_time_colons(OrEmpty(fields.summary))
        summary1 == IF summary0 # <<>> /\ _normalize(summary0) = _normalize(note)
                    THEN <<>> ELSE summary0
        summary  == IF summary1 # <<>> /\ _CMD_VERBS(Strip(summary1))
                    THEN <<>> ELSE summary1
    IN  [summary |-> summary,
         tags    |-> fields.tags,
         content_to_store |-> IF summary # <<>> THEN summary ELSE note]


(***************************************************************************)
(* The store                                                               *)
(***************************************************************************)
\* InboxEntry(content=..., summary=..., tags=...): a row as the store keeps it
\* once added; status starts "pending", destination unset
InboxEntry(id, content, summary, tags) ==
    [id |-> id, content |-> content, summary |-> summary, tags |-> tags,
     status |-> "pending", destination |-> NULL]

\* Reminder(message=..., fire_at=..., entry_id=...); sent starts False
Reminder(id, message, fire_at, entry_id) ==
    [id |-> id, message |-> message, fire_at |-> fire_at,
     sent |-> FALSE, entry_id |-> entry_id]

\* a store without the UNIQUE constraint
ContentTaken_Never(es, content) == FALSE

\* UNIQUE(content): a commit adding a second row with this content raises
\* IntegrityError
ContentTaken(es, content) == \E k \in 1..Len(es) : es[k].content = content

\* query(InboxEntry).filter(status == "processed", tags == tags).all()
ProcessedWithTags(es, tags) ==
    LET Keep(e) == e.status = "processed" /\ e.tags # NULL /\ e.tags = tags
    IN  SelectSeq(es, Keep)

\* a query by content that finds nothing
FirstByContent_NotFound(es, content) == None

\* query(InboxEntry).filter(content == content).first()
FirstByContent(es, content) ==
    LET Keep(e) == e.content = content
        rows == SelectSeq(es, Keep)
    IN  IF rows = <<>> THEN None ELSE Some(Head(rows))

\* the Dedup Guard's loop: the first row whose summary is similar, or None
FirstSimilar(rows, summary) ==
    LET Keep(e) == _similar(OrEmpty(e.summary), summary)
        dups == SelectSeq(rows, Keep)
    IN  IF dups = <<>> THEN None ELSE Some(Head(dups))

\* str.split(","): the pieces of s between commas
RECURSIVE SplitComma(_)
SplitComma(s) ==
    IF \A k \in 1..Len(s) : s[k] # ","
    THEN <<s>>
    ELSE LET c == CHOOSE k \in 1..Len(s) : s[k] = "," /\ \A j \in 1..(k - 1) : s[j] # ","
         IN  <<SubSeq(s, 1, c - 1)>> \o SplitComma(SubSeq(s, c + 1, Len(s)))

\* [t.strip() for t in (tags or "").split(",") if t.strip()]
TagParts(tags) ==
    LET pieces == SplitComma(OrEmpty(tags))
        stripped == [k \in 1..Len(pieces) |-> Strip(pieces[k])]
        Keep(t) == t # <<>>
    IN  SelectSeq(stripped, Keep)

\* the list ideas with idea appended, unless it is empty or already there
WithIdea(ideas, idea) ==
    IF idea # <<>> /\ \A k \in 1..Len(ideas) : ideas[k] # idea
    THEN Append(ideas, idea) ELSE ideas

\* the body of the loop of _build_existing_groups, lines 48-66, for entry e
WithEntryGrouped(groups, e) ==
    LET parts == TagParts(e.tags)
        group_name == parts[1]
        idea == IF OrEmpty(e.summary) # <<>> THEN e.summary ELSE OrEmpty(e.content)
        gs == IF \E k \in 1..Len(groups) : groups[k].name = group_name
              THEN groups
              ELSE Append(groups, [name |-> group_name, ideas |-> <<>>, subgroups |-> <<>>])
        gi == CHOOSE k \in 1..Len(gs) : gs[k].name = group_name
        subs == gs[gi].subgroups
        sgs == IF \E k \in 1..Len(subs) : subs[k].name = parts[2]
               THEN subs
               ELSE Append(subs, [name |-> parts[2], ideas |-> <<>>])
        si == CHOOSE k \in 1..Len(sgs) : sgs[k].name = parts[2]
    IN  IF parts = <<>> THEN groups
        ELSE IF Len(parts) > 1
        THEN [gs EXCEPT ![gi].subgroups = [sgs EXCEPT ![si].ideas = WithIdea(@, idea)]]
        ELSE [gs EXCEPT ![gi].ideas = WithIdea(@, idea)]

RECURSIVE GroupedFrom(_, _)
GroupedFrom(rows, groups) ==
    IF rows = <<>> THEN groups
    ELSE GroupedFrom(Tail(rows), WithEntryGrouped(groups, Head(rows)))

\* a snapshot built from the entries of every status
_build_existing_groups_AnyStatus(es) ==
    LET Keep(e) == e.tags # NULL
    IN  GroupedFrom(SelectSeq(es, Keep), <<>>)

\* _build_existing_groups(db), lines 38-68: the groups of the processed
\* entries with tags, each with its ideas and its subgroups, in store order
_build_existing_groups(es) ==
    LET Keep(e) == e.status = "processed" /\ e.tags # NULL
    IN  GroupedFrom(SelectSeq(es, Keep), <<>>)

\* _entries_matching_delete(ai, db): the processed rows, in store order, whose
\* group, subgroup and idea each pass _similar(entry field, pattern field);
\* an empty pattern field passes
_entries_matching_delete(es, ai) ==
    LET idea     == ai_bridge_normalize(OrEmpty(ai.idea))
        group    == ai_bridge_normalize(OrEmpty(ai.group))
        subgroup == ai_bridge_normalize(OrEmpty(ai.subgroup))
        Matches(e) ==
            LET parts == TagParts(e.tags)
                entry_group    == IF parts # <<>> THEN ai_bridge_normalize(parts[1]) ELSE <<>>
                entry_subgroup == IF Len(parts) > 1 THEN ai_bridge_normalize(parts[2]) ELSE <<>>
                entry_idea     == ai_bridge_normalize(IF OrEmpty(e.summary) # <<>>
                                                      THEN e.summary ELSE OrEmpty(e.content))
                group_ok    == group = <<>>    \/ ai_bridge_similar(entry_group, group)
                subgroup_ok == subgroup = <<>> \/ ai_bridge_similar(entry_subgroup, subgroup)
                idea_ok     == idea = <<>>     \/ ai_bridge_similar(entry_idea, idea)
            IN  e.status = "processed" /\ group_ok /\ subgroup_ok /\ idea_ok
    IN  SelectSeq(es, Matches)

\* find_entry_to_delete(ai, db): the first match, or None
find_entry_to_delete(es, ai) ==
    LET matches == _entries_matching_delete(es, ai)
    IN  IF matches # <<>> THEN Some(matches[1]) ELSE None

SummaryThreshold == 10

\* a count by group alone, whatever the subgroup
_get_group_ideas_AnySubgroup(es, group, subgroup) ==
    LET Keep(e) ==
            LET parts == TagParts(e.tags)
                g  == IF parts # <<>> THEN parts[1] ELSE <<>>
            IN  /\ e.status = "processed"
                /\ g = group
                /\ OrEmpty(e.summary) # <<>>
        rows == SelectSeq(es, Keep)
    IN  [k \in 1..Len(rows) |-> rows[k].summary]

\* _get_group_ideas(group, subgroup, db); subgroup may be NULL
_get_group_ideas(es, group, subgroup) ==
    LET Keep(e) ==
            LET parts == TagParts(e.tags)
                g  == IF parts # <<>> THEN parts[1] ELSE <<>>
                sg == IF Len(parts) > 1 THEN parts[2] ELSE NULL
            IN  /\ e.status = "processed"
                /\ g = group /\ sg = subgroup
                /\ OrEmpty(e.summary) # <<>>
        rows == SelectSeq(es, Keep)
    IN  [k \in 1..Len(rows) |-> rows[k].summary]

\* lines 128-137 of _maybe_auto_summarize: update the pair's row or add one
UpsertSummary(sums, group, subgroup, text) ==
    IF \E k \in 1..Len(sums) : sums[k].group_name = group /\ sums[k].subgroup_name = subgroup
    THEN LET first == CHOOSE k \in 1..Len(sums) :
                        /\ sums[k].group_name = group /\ sums[k].subgroup_name = subgroup
                        /\ \A j \in 1..(k - 1) :
                              ~(sums[j].group_name = group /\ sums[j].subgroup_name = subgroup)
         IN  [sums EXCEPT ![first].summary = text]
    ELSE Append(sums, [group_name |-> group, subgroup_name |-> subgroup, summary |-> text])

\* dt + timedelta(minutes=n), n < 60
PlusMinutes(dt, n) ==
    LET m == dt.minute + n
        h == dt.hour + (m \div 60)
    IN  [day |-> dt.day + (h \div 24), hour |-> h % 24, minute |-> m % 60,
         second |-> dt.second]


(***************************************************************************)
(* Inputs of the pure functions                                            *)
(***************************************************************************)
MaxLen == 5
SimChars == {"a", "B", " "}
\* every text over SimChars of at most MaxLen characters
SimTexts == UNION {[1..n -> SimChars] : n \in 0..MaxLen}

\* a and b joined by one space (either may be empty)
Join(a, b) == IF a = <<>> THEN b ELSE IF b = <<>> THEN a ELSE a \o <<" ">> \o b

\* Time-of-day fragments of a note, each with the hour and minute a reader
\* expects from it (ok: the regular expression is expected to match)
TimeFrags ==
    { [txt |-> <<>>,                                          ok |-> FALSE, hour |-> 0,  minute |-> 0],
      [txt |-> <<"l","a","s"," ","1","8">>,                   ok |-> FALSE, hour |-> 0,  minute |-> 0],
      [txt |-> <<"a"," ","l","a","s"," ","1","8","3","0">>,   ok |-> FALSE, hour |-> 0,  minute |-> 0],
      [txt |-> <<"a"," ","l","a","s"," ","1","8">>,           ok |-> TRUE,  hour |-> 18, minute |-> 0],
      [txt |-> <<"A"," ","L","A","S"," "," ","1","8">>,       ok |-> TRUE,  hour |-> 18, minute |-> 0],
      [txt |-> <<"a"," ","l","a","s"," ","9",":","3","0">>,   ok |-> TRUE,  hour |-> 9,  minute |-> 30],
      [txt |-> <<"a"," ","l","a"," ","1",".","0","5"," ","h">>, ok |-> TRUE, hour |-> 1, minute |-> 5],
      [txt |-> <<"a"," ","l","a","s"," ","7","h">>,           ok |-> TRUE,  hour |-> 7,  minute |-> 0],
      [txt |-> <<"a"," ","l","a","s"," ","0",":","0","0">>,   ok |-> TRUE,  hour |-> 0,  minute |-> 0],
      [txt |-> <<"a"," ","l","a","s"," ","2","3","h","5","9">>, ok |-> TRUE, hour |-> 23, minute |-> 59],
      [txt |-> <<"a"," ","l","a","s"," ","2","5">>,           ok |-> TRUE,  hour |-> 25, minute |-> 0],
      [txt |-> <<"a"," ","l","a","s"," ","9",":","7","5">>,   ok |-> TRUE,  hour |-> 9,  minute |-> 75] }

KwManana       == <<"m","a","n~","a","n","a">>
KwMananaAscii  == <<"m","a","n","a","n","a">>
KwPasado       == <<"p","a","s","a","d","o"," ","m","a","n~","a","n","a">>
KwPasadoAscii  == <<"p","a","s","a","d","o"," ","m","a","n","a","n","a">>

WeekdayNames == {_WEEKDAYS_BACKEND[w].name : w \in 1..Len(_WEEKDAYS_BACKEND)}

\* Day fragments of a note: nothing, a word without meaning, the day keywords
\* and the weekday names
DayFrags ==
    {<<>>, <<"h","o","y">>, <<"V","i","e","r","n","e","s">>,
     KwManana, KwMananaAscii, KwPasado, KwPasadoAscii} \cup WeekdayNames

\* what may follow the time of day
DayFragsAfter == {<<>>, KwManana, <<"l","u","n","e","s">>}

\* the values of datetime.now(): days 0..MaxNowDay, at times around the
\* times of day of TimeFrags
MaxNowDay == 7
NowTimes ==
    { [hour |-> 0,  minute |-> 0,  second |-> 0],
      [hour |-> 8,  minute |-> 0,  second |-> 0],
      [hour |-> 9,  minute |-> 30, second |-> 1],
      [hour |-> 18, minute |-> 0,  second |-> 0],
      [hour |-> 23, minute |-> 59, second |-> 59] }
Nows ==
    {[day |-> d, hour |-> t.hour, minute |-> t.minute, second |-> t.second] :
        d \in 0..MaxNowDay, t \in NowTimes}
Now0 == [day |-> 0, hour |-> 8, minute |-> 0, second |-> 0]

(***************************************************************************)
(* Inputs of the request handlers                                          *)
(***************************************************************************)
TxtPan      == <<"p","a","n">>
TxtPanUpper == <<"P","a","n">>
TxtPanTime  == <<"P","a","n"," "," ","1","8"," ","3","0">>
TxtGroup    == <<"g">>
TxtSub      == <<"s">>

\* the time-of-day fragments the notes are written with
NoteTimeFrags ==
    {t \in TimeFrags : t.txt \in { <<>>,
                                   <<"a"," ","l","a","s"," ","1","8">>,
                                   <<"a"," ","l","a","s"," ","2","5">>,
                                   <<"a"," ","l","a","s"," ","9",":","7","5">> }}

\* note.content of the notes submitted
Notes == {Join(TxtPan, t.txt) : t \in NoteTimeFrags}
\* those without a time of day, or with a valid one
PlainNotes == {Join(TxtPan, t.txt) : t \in {x \in NoteTimeFrags : x.hour \in {0, 18}}}

\* the fragment a note was written with
TimeFragOf(note) == CHOOSE t \in NoteTimeFrags : note = Join(TxtPan, t.txt)

\* the action of a dict without the key "action"
NoAction == "(absent)"

\* A ClassificationResult as the provider returns it (a dict): an absent or
\* null key is NULL, remind_at is None or what its text parses to
AiResult(makes_sense, action, subgroup, idea) ==
    [makes_sense |-> makes_sense, action |-> action, group |-> TxtGroup,
     subgroup |-> subgroup, idea |-> idea, remind_at |-> None]

AddResults ==
    {AiResult(TRUE, "add", sg, idea) :
        sg \in {NULL, TxtSub}, idea \in {TxtPanUpper, TxtPanTime}}
    \cup {AiResult(TRUE, "add", NULL, NULL)}

AiResults ==
    AddResults \cup {AiResult(TRUE, "remind", NULL, TxtPan),
                     AiResult(FALSE, "add", NULL, NULL)}

\* values of the key "remind_at": a text or a number
StrValue(text) == Some([type |-> "str", text |-> text, value |-> 0])
IntValue(n)    == Some([type |-> "int", text |-> <<>>, value |-> n])

IsoPast    == <<"2","0","2","6","-","0","1","-","0","5","T","0","7",":","0","0">>
IsoDate    == <<"2","0","2","6","-","0","1","-","0","6">>
IsoSeconds == <<"2","0","2","6","-","0","3","-","0","1"," ","1","8",":","3","0",":","1","5">>
IsoMonth13 == <<"2","0","2","6","-","1","3","-","0","1","T","1","0",":","0","0">>
IsoFeb29   == <<"2","0","2","6","-","0","2","-","2","9">>
IsoHour25  == <<"2","0","2","6","-","0","1","-","0","6","T","2","5",":","0","0">>

\* remind_at absent, empty, not a string, malformed, and well-formed
RemindAts ==
    {None, StrValue(<<>>), IntValue(0), IntValue(5),
     StrValue(KwMananaAscii), StrValue(<<"1","8",":","3","0">>),
     StrValue(IsoMonth13), StrValue(IsoFeb29), StrValue(IsoHour25),
     StrValue(IsoPast), StrValue(IsoDate), StrValue(IsoSeconds)}

RemindResults ==
    {[AiResult(TRUE, "remind", NULL, idea) EXCEPT !.remind_at = at] :
        idea \in {NULL, <<>>, TxtPanUpper}, at \in RemindAts}

\* results that add an entry and results that delete by a pattern
DeleteResults ==
    {AiResult(TRUE, "add", NULL, TxtPanTime), AiResult(TRUE, "add", NULL, NULL)}
    \cup {AiResult(TRUE, "delete", NULL, idea) : idea \in {NULL, TxtPanUpper, TxtPanTime}}

\* results that make no sense, whatever their action, and results that make
\* sense with the action key absent or holding an unknown value
DispatchResults ==
    {AiResult(FALSE, a, NULL, TxtPan) : a \in {"delete", "remind", "add", NoAction}}
    \cup {AiResult(TRUE, a, NULL, idea) :
             a \in {NoAction, "update"}, idea \in {TxtPanUpper, TxtPanTime}}

MaxResults == 1
\* what classify_with_ai returns when the provider answers with results of pool
ListsUpTo(pool, len) == UNION {[1..n -> pool] : n \in 1..len}
ListsOf(pool) == ListsUpTo(pool, MaxResults)
AiLists == ListsOf(AiResults)

MaxSlots == 2
Slots == 1..MaxSlots

MaxNotes == 2
MaxOther == 1
MaxBatch == 1
MaxPolls == 2
MaxDelRems == 1
MaxTicks == 1

\* notes with a valid time of day
TimedNotes == {Join(TxtPan, t.txt) : t \in {x \in NoteTimeFrags : x.hour = 18}}

TxtLeche == <<"l","e","c","h","e">>

\* results that add ideas to the group, with and without a subgroup, and one
\* whose idea repeats the note (it is stored without a summary)
SummaryResults ==
    {AiResult(TRUE, "add", NULL, TxtPanTime), AiResult(TRUE, "add", NULL, TxtLeche),
     AiResult(TRUE, "add", TxtSub, TxtLeche), AiResult(TRUE, "add", NULL, TxtPanUpper)}

TxtLecheUpper == <<"L","e","c","h","e">>
TxtNewName == <<"h">>

\* results that add an idea to the pair (g, s), and results that add the
\* same idea in another case to the pairs a rename makes of it, (h, s) and
\* (g, h); the same without a subgroup, for g and h
MaxRenames == 2
RenameResults ==
    {AiResult(TRUE, "add", TxtSub, TxtLeche),
     [AiResult(TRUE, "add", TxtSub, TxtLecheUpper) EXCEPT !.group = TxtNewName],
     AiResult(TRUE, "add", TxtNewName, TxtLecheUpper),
     AiResult(TRUE, "add", NULL, TxtLeche),
     [AiResult(TRUE, "add", NULL, TxtLecheUpper) EXCEPT !.group = TxtNewName]}

\* results that add an idea to the group, add it again in another case, and
\* delete the entries of the group with that idea
VisibilityResults ==
    {AiResult(TRUE, "add", NULL, TxtLeche), AiResult(TRUE, "add", NULL, TxtLecheUpper),
     AiResult(TRUE, "delete", NULL, TxtLeche)}

\* results that add two different ideas to the same pair
SamePairResults ==
    {AiResult(TRUE, "add", NULL, TxtPanTime), AiResult(TRUE, "add", NULL, TxtLeche)}

\* results that add an entry to the group, without and with a subgroup
MaxDiscards == 2
DiscardResults ==
    {AiResult(TRUE, "add", NULL, TxtPanTime), AiResult(TRUE, "add", TxtSub, TxtLeche)}

\* one result of each kind: two that add (to different pairs), one that
\* asks for a reminder, one that deletes every processed entry of the
\* group, one that makes no sense
MaxFanout == 2
FanoutResults ==
    {AiResult(TRUE, "add", NULL, TxtPanTime), AiResult(TRUE, "add", TxtSub, TxtLeche),
     AiResult(TRUE, "remind", NULL, TxtPan), AiResult(TRUE, "delete", NULL, NULL),
     AiResult(FALSE, "add", NULL, NULL)}

\* a result that adds an entry with an idea, to which the automatic reminder
\* is linked, and one that deletes every processed entry of the group
LinkedResults ==
    {AiResult(TRUE, "add", NULL, TxtPanTime), AiResult(TRUE, "delete", NULL, NULL)}

\* a result that adds an entry with an idea, and one that asks for a reminder
\* at a moment already past
DueResults ==
    {AiResult(TRUE, "add", NULL, TxtPanTime),
     [AiResult(TRUE, "remind", NULL, TxtPanUpper) EXCEPT !.remind_at = StrValue(IsoPast)]}

\* The runs explored. slots: add_note requests in flight at once; calls:
\* add_note requests; others: batch_save and create_entry requests made at any
\* moment; fill: those made before the first add_note; notes: the notes sent.
\*   - double submissions racing on a store filled beforehand,
\*   - requests one after the other, other handlers running in between,
\*   - one request, for every note,
\*   - one request whose result is dispatched on makes_sense and action, on a
\*     store filled beforehand,
\*   - requests one after the other that add entries and delete by a pattern,
\*     on a store filled beforehand,
\*   - one request whose result is a reminder, for every form of remind_at,
\*   - requests that leave reminders, then the scheduler's polls while the
\*     clock advances and delete_reminder is called,
\*   - a request that leaves an entry with a reminder linked to it, then a
\*     delete action on that entry while the scheduler polls.
\*   - a store that already holds nine or ten ideas of a group, then adds
\*     that bring the group to and past the threshold of the summarizer,
\*     one request at a time and two requests at once.
\* seed: the processed entries with an idea the store starts with, all under
\* the group without subgroup.
\*   - the same with a store that may fail the commits of the summarizer
\*     and of the automatic reminder.
\*   - a note the provider splits into two results, of any two kinds, on a
\*     store that holds an entry.
\*   - an entry with a reminder linked to it, then the removal handlers:
\*     discard_entry, delete_group, delete_subgroup, delete_reminder.
\* discards: calls of discard_entry, delete_group and delete_subgroup.
\* mixed: requests served at the same time may differ in note and answer.
\* fanout: the most results the provider answers a note with.
\* faults: the commits of the two triggers may raise.
\*   - an entry under a group and a subgroup, then rename_group and
\*     rename_subgroup, then a note whose idea is filed under the new names.
\*   - a store at the threshold of the summarizer, then notes that add an
\*     idea, add it again and delete it, while entries are discarded, left
\*     pending by a failed export, and groups renamed.
\* renames: calls of rename_group and rename_subgroup.
\* live: the scheduler runs without end.
\* results: the results the provider answers with; polls: runs of
\* _check_reminders; delrems: delete_reminder requests; ticks: days the clock
\* advances.
Workloads ==
    { [slots |-> MaxSlots, calls |-> MaxNotes, fill |-> MaxOther, others |-> 0,
       notes |-> PlainNotes, results |-> AiResults, polls |-> 0, delrems |-> 0, ticks |-> 0, seed |-> 0,
       mixed |-> FALSE, faults |-> FALSE, fanout |-> MaxResults, discards |-> 0, live |-> FALSE, renames |-> 0],
      [slots |-> 1, calls |-> MaxNotes, fill |-> 0, others |-> MaxOther,
       notes |-> PlainNotes, results |-> AiResults, polls |-> 0, delrems |-> 0, ticks |-> 0, seed |-> 0,
       mixed |-> FALSE, faults |-> FALSE, fanout |-> MaxResults, discards |-> 0, live |-> FALSE, renames |-> 0],
      [slots |-> 1, calls |-> 1, fill |-> 0, others |-> 0, notes |-> Notes,
       results |-> AiResults, polls |-> 0, delrems |-> 0, ticks |-> 0, seed |-> 0,
       mixed |-> FALSE, faults |-> FALSE, fanout |-> MaxResults, discards |-> 0, live |-> FALSE, renames |-> 0],
      [slots |-> 1, calls |-> 1, fill |-> MaxOther, others |-> 0, notes |-> PlainNotes,
       results |-> DispatchResults, polls |-> 0, delrems |-> 0, ticks |-> 0, seed |-> 0,
       mixed |-> FALSE, faults |-> FALSE, fanout |-> MaxResults, discards |-> 0, live |-> FALSE, renames |-> 0],
      [slots |-> 1, calls |-> MaxNotes, fill |-> MaxOther, others |-> 0,
       notes |-> PlainNotes, results |-> DeleteResults, polls |-> 0, delrems |-> 0, ticks |-> 0, seed |-> 0,
       mixed |-> FALSE, faults |-> FALSE, fanout |-> MaxResults, discards |-> 0, live |-> FALSE, renames |-> 0],
      [slots |-> 1, calls |-> 1, fill |-> 0, others |-> 0, notes |-> PlainNotes,
       results |-> RemindResults, polls |-> 0, delrems |-> 0, ticks |-> 0, seed |-> 0,
       mixed |-> FALSE, faults |-> FALSE, fanout |-> MaxResults, discards |-> 0, live |-> FALSE, renames |-> 0],
      [slots |-> 1, calls |-> MaxNotes, fill |-> 0, others |-> 0, notes |-> TimedNotes,
       results |-> DueResults, polls |-> MaxPolls, delrems |-> MaxDelRems,
       ticks |-> MaxTicks, seed |-> 0,
       mixed |-> FALSE, faults |-> FALSE, fanout |-> MaxResults, discards |-> 0, live |-> FALSE, renames |-> 0],
      [slots |-> 1, calls |-> MaxNotes, fill |-> 0, others |-> 0, notes |-> TimedNotes,
       results |-> LinkedResults, polls |-> 1, delrems |-> 0, ticks |-> MaxTicks,
       seed |-> 0,
       mixed |-> FALSE, faults |-> FALSE, fanout |-> MaxResults, discards |-> 0, live |-> FALSE, renames |-> 0],
      [slots |-> 1, calls |-> MaxNotes, fill |-> 0, others |-> 0, notes |-> {TxtPan},
       results |-> SummaryResults, polls |-> 0, delrems |-> 0, ticks |-> 0,
       seed |-> SummaryThreshold - 1, mixed |-> FALSE, faults |-> FALSE, fanout |-> MaxResults, discards |-> 0, live |-> FALSE, renames |-> 0],
      [slots |-> 1, calls |-> MaxNotes, fill |-> 0, others |-> 0, notes |-> {TxtPan},
       results |-> SummaryResults, polls |-> 0, delrems |-> 0, ticks |-> 0,
       seed |-> SummaryThreshold, mixed |-> FALSE, faults |-> FALSE, fanout |-> MaxResults, discards |-> 0, live |-> FALSE, renames |-> 0],
      [slots |-> MaxSlots, calls |-> MaxNotes, fill |-> 0, others |-> 0,
       notes |-> {TxtPan}, results |-> SamePairResults, polls |-> 0, delrems |-> 0,
       ticks |-> 0, seed |-> SummaryThreshold, mixed |-> TRUE, faults |-> FALSE, fanout |-> MaxResults, discards |-> 0, live |-> FALSE, renames |-> 0],
      [slots |-> 1, calls |-> 1, fill |-> 0, others |-> 0,
       notes |-> TimedNotes, results |-> SamePairResults, polls |-> 0, delrems |-> 0,
       ticks |-> 0, seed |-> SummaryThreshold, mixed |-> FALSE, faults |-> TRUE,
       fanout |-> MaxResults, discards |-> 0, live |-> FALSE, renames |-> 0],
      [slots |-> 1, calls |-> 1, fill |-> MaxOther, others |-> 0,
       notes |-> PlainNotes, results |-> FanoutResults, polls |-> 0, delrems |-> 0,
       ticks |-> 0, seed |-> 0, mixed |-> FALSE, faults |-> FALSE,
       fanout |-> MaxFanout, discards |-> 0, live |-> FALSE, renames |-> 0],
      [slots |-> 1, calls |-> 1, fill |-> 0, others |-> 0,
       notes |-> TimedNotes, results |-> DiscardResults, polls |-> 0,
       delrems |-> MaxDelRems, ticks |-> 0, seed |-> 0, mixed |-> FALSE,
       faults |-> FALSE, fanout |-> MaxResults, discards |-> MaxDiscards, live |-> FALSE, renames |-> 0],
      [slots |-> 1, calls |-> MaxNotes, fill |-> 0, others |-> 0,
       notes |-> {TxtPan}, results |-> RenameResults, polls |-> 0,
       delrems |-> 0, ticks |-> 0, seed |-> 0, mixed |-> FALSE,
       faults |-> FALSE, fanout |-> MaxResults, discards |-> 0, live |-> FALSE,
       renames |-> MaxRenames],
      [slots |-> 1, calls |-> MaxNotes, fill |-> 0, others |-> 0,
       notes |-> {TxtPan}, results |-> VisibilityResults, polls |-> 0,
       delrems |-> 0, ticks |-> 0, seed |-> SummaryThreshold, mixed |-> FALSE,
       faults |-> FALSE, fanout |-> MaxResults, discards |-> 1, live |-> FALSE,
       renames |-> 1] }

\* the entries a store holds after n notes with different ideas were added
\* and exported under the group, none with a subgroup
SeedIdea(k) == <<"i", DigitChars[(k \div 10) + 1], DigitChars[(k % 10) + 1]>>

SeedEntries(n) ==
    [k \in 1..n |->
        [InboxEntry(k, SeedIdea(k), SeedIdea(k), TxtGroup)
            EXCEPT !.status = "processed", !.destination = <<"m","d">>]]

\* the items of a batch_save request
BatchItems ==
    {[idea |-> idea, group |-> TxtGroup, subgroup |-> NULL] :
        idea \in {TxtPan, TxtPanTime}}
Batches == UNION {[1..n -> BatchItems] : n \in 1..MaxBatch}

\* what request_summary returns: a text, or "" when the provider fails
SummaryTexts == {<<>>, <<"r","e","s","u","m","e","n">>}

(***************************************************************************)
(* The pure functions as state machines: Init draws the arguments, the     *)
(* action makes the call                                                   *)
(***************************************************************************)
IdleReq ==
    [pc |-> "idle", note |-> <<>>, ai_list |-> <<>>, i |-> 0, results |-> <<>>,
     summary |-> <<>>, tags |-> <<>>, content_to_store |-> <<>>, db_entry |-> 0,
     deleted |-> <<>>, text |-> <<>>, existing |-> FALSE]

NoWorkload ==
    [slots |-> 0, calls |-> 0, fill |-> 0, others |-> 0, notes |-> {}, results |-> {},
     polls |-> 0, delrems |-> 0, ticks |-> 0, seed |-> 0,
     mixed |-> FALSE, faults |-> FALSE, fanout |-> 0, discards |-> 0, live |-> FALSE, renames |-> 0]

\* _check_reminders is not running
IdlePoll ==
    [pc |-> "idle", due |-> <<>>, k |-> 0, dirty |-> {}, flushed |-> {},
     doomed |-> {}]

AppIdle ==
    /\ entries = <<>> /\ reminders = <<>> /\ summaries = <<>>
    /\ nextEntryId = 1 /\ nextReminderId = 1
    /\ clock = Now0
    /\ req = [r \in Slots |-> IdleReq]
    /\ hist = <<>>
    /\ workload = NoWorkload
    /\ poll = IdlePoll

SimIdle  == simA = <<>> /\ simB = <<>> /\ simOut = None
NoTimeFrag == [txt |-> <<>>, ok |-> FALSE, hour |-> 0, minute |-> 0]
FireIdle == fireText = <<>> /\ fireNow = Now0 /\ fireOut = None /\ fireFrag = NoTimeFrag
DelIdle  == delAi = None /\ delOut = None

InitSimilar ==
    /\ simA \in SimTexts
    /\ simB \in SimTexts
    /\ simOut = None
    /\ FireIdle /\ DelIdle /\ AppIdle

CallSimilar ==
    /\ simOut = None
    /\ simOut' = Some([main   |-> _similar(simA, simB),
                       bridge |-> ai_bridge_similar(simA, simB)])
    /\ UNCHANGED <<simA, simB, fireVars, delVars, appVars>>

NextSimilar == CallSimilar

SpecSimilar == InitSimilar /\ [][NextSimilar]_vars

InitFire ==
    /\ \E d \in DayFrags, t \in TimeFrags, e \in DayFragsAfter :
          /\ fireText = Join(Join(d, t.txt), e)
          /\ fireFrag = t
    /\ fireNow \in Nows
    /\ fireOut = None
    /\ SimIdle /\ DelIdle /\ AppIdle

CallAutoFireAt ==
    /\ fireOut = None
    /\ fireOut' = Some(_auto_fire_at(fireText, fireNow))
    /\ UNCHANGED <<fireText, fireNow, fireFrag, simVars, delVars, appVars>>

NextFire == CallAutoFireAt

SpecFire == InitFire /\ [][NextFire]_vars

\* rows of a store for the Delete Resolver: row k holds content k; the
\* summary, the tags and the status vary
TxtPanes   == <<"P","a","n","e","s">>
TagG       == <<"g">>
TagGS      == <<"g",","," ","s">>
TagHS      == <<"h",",","s">>
DelContents == <<TxtPan, TxtLeche>>
DelSummaries == {NULL, TxtPanUpper, TxtPanes, _fix_time_colons(TxtPanTime)}
DelTags == {NULL, TagG, TagGS, TagHS}
DelRows(k) ==
    {[id |-> k, content |-> DelContents[k], summary |-> sm, tags |-> tg,
      status |-> st, destination |-> NULL] :
        sm \in DelSummaries, tg \in DelTags, st \in {"processed", "pending"}}
DelStores == {<<e1, e2>> : e1 \in DelRows(1), e2 \in DelRows(2)}

\* delete patterns: each of group, subgroup and idea absent or set
DelPatterns ==
    {[makes_sense |-> TRUE, action |-> "delete", group |-> g, subgroup |-> sg,
      idea |-> idea, remind_at |-> None] :
        g \in {NULL, <<"G">>}, sg \in {NULL, TxtSub},
        idea \in {NULL, TxtPan, TxtPanes, <<" ">>}}

InitDelete ==
    /\ delAi \in {Some(p) : p \in DelPatterns}
    /\ delOut = None
    /\ entries \in DelStores
    /\ reminders = <<>> /\ summaries = <<>>
    /\ nextEntryId = 3 /\ nextReminderId = 1
    /\ clock = Now0
    /\ req = [r \in Slots |-> IdleReq]
    /\ hist = <<>>
    /\ workload = NoWorkload
    /\ poll = IdlePoll
    /\ SimIdle /\ FireIdle

CallEntriesMatchingDelete ==
    /\ delAi # None /\ delOut = None
    /\ delOut' = Some([matches |-> _entries_matching_delete(entries, delAi[1]),
                       first   |-> find_entry_to_delete(entries, delAi[1])])
    /\ UNCHANGED <<delAi, simVars, fireVars, appVars>>

NextDelete == CallEntriesMatchingDelete

SpecDelete == InitDelete /\ [][NextDelete]_vars

(***************************************************************************)
(* The request handlers                                                    *)
(***************************************************************************)
\* NoteOut(...): entry is None or the id of the entry shown, idea NULL when
\* absent, remind_at None or the reminder's time
NoteOut(action, entry, idea, remind_at) ==
    [action |-> action, entry |-> entry, idea |-> idea,
     ai_skipped |-> FALSE, deleted_count |-> 0, remind_at |-> remind_at]

\* Python's  x or None  on a text
OrNull(x) == IF x = <<>> THEN NULL ELSE x

EntryIds(es) == {es[k].id : k \in 1..Len(es)}

\* hist: a handler was called
CallEvent(op, r, note, ai_list) ==
    [ev |-> "call", op |-> op, r |-> r, note |-> note, ai_list |-> ai_list,
     results |-> <<>>, error |-> 0, ids |-> {}, export_failed |-> FALSE,
     reminder |-> 0, delivered |-> FALSE, existing_groups |-> <<>>]

\* hist: a handler returned results or raised (error is the HTTP status); ids
\* are the entries in the store at that moment
ReturnEvent(op, r, note, ai_list, results, error, es) ==
    [ev |-> "return", op |-> op, r |-> r, note |-> note, ai_list |-> ai_list,
     results |-> results, error |-> error, ids |-> EntryIds(es),
     export_failed |-> FALSE,
     reminder |-> 0, delivered |-> FALSE, existing_groups |-> <<>>]

\* hist: export_to_markdown raised in request r
ExportFailedEvent(r, note, ai_list) ==
    [ev |-> "export", op |-> "add_note", r |-> r, note |-> note, ai_list |-> ai_list,
     results |-> <<>>, error |-> 0, ids |-> {}, export_failed |-> TRUE,
     reminder |-> 0, delivered |-> FALSE, existing_groups |-> <<>>]

NumCalls(op_set) ==
    Cardinality({k \in 1..Len(hist) : hist[k].ev = "call" /\ hist[k].op \in op_set})

\* a request is served by the lowest free slot
LowestFree(r) ==
    /\ req[r].pc = "idle"
    /\ r <= workload.slots
    /\ \A q \in 1..(r - 1) : req[q].pc # "idle"

\* a request sent while another is in flight is a second submission of it
\* (the same note, and the provider gives the same answer), unless the
\* workload mixes requests
Resubmits(note, ai_list) ==
    \/ workload.mixed
    \/ \A q \in Slots :
          req[q].pc # "idle" => (req[q].note = note /\ req[q].ai_list = ai_list)

\* the workload lets batch_save or create_entry be called now
OtherAllowed ==
    LET used == NumCalls({"batch_save", "create_entry"})
    IN  \/ used < workload.others
        \/ used < workload.fill /\ NumCalls({"add_note"}) = 0

\* a list comprehension that puts each new outcome in front
Advance_Prepend(rq, outcome) ==
    [rq EXCEPT !.results = <<outcome>> \o @,
               !.i = @ + 1,
               !.pc = IF rq.i + 1 > Len(rq.ai_list) THEN "auto_reminder" ELSE "dispatch",
               !.summary = <<>>, !.tags = <<>>, !.content_to_store = <<>>,
               !.db_entry = 0, !.deleted = <<>>, !.text = <<>>, !.existing = FALSE]

\* _process_single_ai returned outcome: on to the next result, or to the
\* post-processing of add_note (line 389)
Advance(rq, outcome) ==
    [rq EXCEPT !.results = Append(@, outcome),
               !.i = @ + 1,
               !.pc = IF rq.i + 1 > Len(rq.ai_list) THEN "auto_reminder" ELSE "dispatch",
               !.summary = <<>>, !.tags = <<>>, !.content_to_store = <<>>,
               !.db_entry = 0, !.deleted = <<>>, !.text = <<>>, !.existing = FALSE]

\* add_note, line 379: the provider answered with ai_list
AddNoteCall(r) ==
    /\ LowestFree(r)
    /\ NumCalls({"add_note"}) < workload.calls
    /\ \E note \in workload.notes, ai_list \in ListsUpTo(workload.results, workload.fanout) :
          /\ Resubmits(note, ai_list)
          /\ req' = [req EXCEPT ![r] =
                        [IdleReq EXCEPT !.pc = "dispatch", !.note = note,
                                        !.ai_list = ai_list, !.i = 1]]
          /\ hist' = Append(hist,
                [CallEvent("add_note", r, note, ai_list)
                    EXCEPT !.existing_groups = _build_existing_groups(entries)])
    /\ UNCHANGED <<storeVars, clock, workload, poll, pureVars>>

\* add_note, lines 379-387: the provider is unavailable (classify_with_ai
\* returned None); the commit raises IntegrityError to the caller when the
\* content is taken
AddNoteAiSkipped ==
    /\ NumCalls({"add_note"}) < workload.calls
    /\ \A q \in Slots : req[q].pc = "idle"
    /\ \E note \in workload.notes :
          IF ContentTaken(entries, note)
          THEN /\ hist' = hist \o
                    << CallEvent("add_note", 0, note, None),
                       ReturnEvent("add_note", 0, note, None, <<>>, 500, entries) >>
               /\ UNCHANGED <<entries, nextEntryId>>
          ELSE LET es == Append(entries, InboxEntry(nextEntryId, note, NULL, NULL))
                   out == [NoteOut("add", Some(nextEntryId), NULL, None)
                              EXCEPT !.ai_skipped = TRUE]
               IN  /\ entries' = es
                   /\ nextEntryId' = nextEntryId + 1
                   /\ hist' = hist \o
                        << CallEvent("add_note", 0, note, None),
                           ReturnEvent("add_note", 0, note, None, <<out>>, 0, es) >>
    /\ UNCHANGED <<reminders, summaries, nextReminderId, clock, req, workload, poll, pureVars>>

\* line 245: ai.get("action", "add")
ActionOf(ai) == IF ai.action = NoAction THEN "add" ELSE ai.action

\* Dispatch with the action looked at before makes_sense
Dispatch_ActionFirst(ai) ==
    IF ActionOf(ai) = "delete" THEN "delete"
    ELSE IF ActionOf(ai) = "remind" THEN "remind"
    ELSE IF ~ai.makes_sense THEN "ignored"
    ELSE "add"

\* Dispatch with an unknown action ignored
Dispatch_UnknownIgnored(ai) ==
    IF ~ai.makes_sense THEN "ignored"
    ELSE IF ActionOf(ai) = "delete" THEN "delete"
    ELSE IF ActionOf(ai) = "remind" THEN "remind"
    ELSE IF ActionOf(ai) = "add" THEN "add"
    ELSE "ignored"

\* _process_single_ai, lines 242-275: the branch taken for the result ai
Dispatch(ai) ==
    IF ~ai.makes_sense THEN "ignored"
    ELSE IF ActionOf(ai) = "delete" THEN "delete"
    ELSE IF ActionOf(ai) = "remind" THEN "remind"
    ELSE "add"

\* _process_single_ai, lines 242-243: the result makes no sense
Ignore(r) ==
    LET rq == req[r]
    IN  /\ rq.pc = "dispatch"
        /\ Dispatch(rq.ai_list[rq.i]) = "ignored"
        /\ req' = [req EXCEPT ![r] = Advance(rq, NoteOut("ignored", None, NULL, None))]
        /\ UNCHANGED <<storeVars, clock, hist, workload, poll, pureVars>>

\* the rows of es that are not among the rows gone; deleting a row that is
\* no longer in the table changes nothing
WithoutRows(es, gone) ==
    LET Keep(e) == \A k \in 1..Len(gone) : gone[k].id # e.id
    IN  SelectSeq(es, Keep)

\* delete_entries_matching, lines 169-171: the query, and db.delete on each
\* match
DeleteQuery(r) ==
    LET rq == req[r]
        ai == rq.ai_list[rq.i]
    IN  /\ rq.pc = "dispatch"
        /\ Dispatch(ai) = "delete"
        /\ req' = [req EXCEPT ![r].pc = "delete_commit",
                              ![r].deleted = _entries_matching_delete(entries, ai)]
        /\ UNCHANGED <<storeVars, clock, hist, workload, poll, pureVars>>

\* delete_entries_matching, lines 172-174, and _process_single_ai, lines
\* 249-256: the commit when something matched, then db.refresh(first), which
\* raises InvalidRequestError because first is no longer persistent in the
\* session: the request ends with status 500, the deletion committed
DeleteCommit(r) ==
    LET rq == req[r]
        ai == rq.ai_list[rq.i]
        deleted == rq.deleted
        first == IF deleted # <<>> THEN Some(deleted[1].id) ELSE None
    IN  /\ rq.pc = "delete_commit"
        /\ entries' = WithoutRows(entries, deleted)
        /\ IF first # None
           THEN /\ req' = [req EXCEPT ![r] = IdleReq]
                /\ hist' = Append(hist,
                      ReturnEvent("add_note", r, rq.note, rq.ai_list, rq.results, 500,
                                  WithoutRows(entries, deleted)))
           ELSE /\ req' = [req EXCEPT ![r] =
                      Advance(rq, [NoteOut("delete", first, ai.idea, None)
                                      EXCEPT !.deleted_count = Len(deleted)])]
                /\ hist' = hist
        /\ UNCHANGED <<reminders, summaries, nextEntryId, nextReminderId, clock, workload,
                       poll, pureVars>>

\* the days from 0001-01-01 to the first day of year y (date.toordinal)
DaysBeforeYear(y) ==
    365 * (y - 1) + ((y - 1) \div 4) - ((y - 1) \div 100) + ((y - 1) \div 400)

IsLeap(y) == (y % 4 = 0 /\ y % 100 # 0) \/ y % 400 = 0

DaysInMonth(y, m) ==
    IF m = 2 THEN (IF IsLeap(y) THEN 29 ELSE 28)
    ELSE IF m \in {4, 6, 9, 11} THEN 30 ELSE 31

RECURSIVE DaysBeforeMonth(_, _)
DaysBeforeMonth(y, m) ==
    IF m <= 1 THEN 0 ELSE DaysBeforeMonth(y, m - 1) + DaysInMonth(y, m - 1)

Ordinal(y, m, d) == DaysBeforeYear(y) + DaysBeforeMonth(y, m) + d

\* day 0 of the model's calendar is Monday 2026-01-05
EpochOrdinal == Ordinal(2026, 1, 5)

\* a fromisoformat that takes the digits without checking their ranges
fromisoformat_Unvalidated(s) ==
    IF Len(s) \in {10, 16, 19} /\ DigitsAt(s, 1, 4) /\ DigitsAt(s, 6, 2) /\ DigitsAt(s, 9, 2)
    THEN Some([day    |-> Ordinal(ParseInt(SubSeq(s, 1, 4)), ParseInt(SubSeq(s, 6, 7)),
                                  ParseInt(SubSeq(s, 9, 10))) - EpochOrdinal,
               hour   |-> IF Len(s) > 10 /\ DigitsAt(s, 12, 2)
                          THEN ParseInt(SubSeq(s, 12, 13)) % 24 ELSE 0,
               minute |-> IF Len(s) > 10 /\ DigitsAt(s, 15, 2)
                          THEN ParseInt(SubSeq(s, 15, 16)) % 60 ELSE 0,
               second |-> 0])
    ELSE Some([day |-> 0, hour |-> 0, minute |-> 0, second |-> 0])

\* datetime.fromisoformat(s) on a text of the form YYYY-MM-DD, YYYY-MM-DD?HH:MM
\* or YYYY-MM-DD?HH:MM:SS (? any one character): the datetime, or None where
\* it raises ValueError
fromisoformat(s) ==
    LET n == Len(s)
        dateShape == /\ n >= 10
                     /\ DigitsAt(s, 1, 4) /\ s[5] = "-"
                     /\ DigitsAt(s, 6, 2) /\ s[8] = "-"
                     /\ DigitsAt(s, 9, 2)
        timeShape == \/ n = 10
                     \/ /\ n \in {16, 19}
                        /\ DigitsAt(s, 12, 2) /\ s[14] = ":" /\ DigitsAt(s, 15, 2)
                        /\ n = 19 => (s[17] = ":" /\ DigitsAt(s, 18, 2))
    IN  IF ~(dateShape /\ timeShape) THEN None
        ELSE LET y  == ParseInt(SubSeq(s, 1, 4))
                 m  == ParseInt(SubSeq(s, 6, 7))
                 d  == ParseInt(SubSeq(s, 9, 10))
                 hh == IF n > 10 THEN ParseInt(SubSeq(s, 12, 13)) ELSE 0
                 mm == IF n > 10 THEN ParseInt(SubSeq(s, 15, 16)) ELSE 0
                 ss == IF n = 19 THEN ParseInt(SubSeq(s, 18, 19)) ELSE 0
             IN  IF /\ y >= 1 /\ m \in 1..12 /\ d >= 1 /\ d <= DaysInMonth(y, m)
                    /\ hh <= 23 /\ mm <= 59 /\ ss <= 59
                 THEN Some([day |-> Ordinal(y, m, d) - EpochOrdinal,
                            hour |-> hh, minute |-> mm, second |-> ss])
                 ELSE None

\* Python's truth value of ai.get("remind_at"): None, "" and 0 are false
Truthy(remind_at) ==
    /\ remind_at # None
    /\ IF remind_at[1].type = "str" THEN remind_at[1].text # <<>> ELSE remind_at[1].value # 0

\* lines 260-263: the parsed timestamp; None when remind_at is false, when
\* fromisoformat raises TypeError (not a string) or ValueError (malformed)
ParsedRemindAt(remind_at) ==
    IF ~Truthy(remind_at) THEN None
    ELSE IF remind_at[1].type # "str" THEN None
    ELSE fromisoformat(remind_at[1].text)

\* _process_single_ai, lines 258-273: action "remind"
Remind(r) ==
    LET rq == req[r]
        ai == rq.ai_list[rq.i]
        message == IF OrEmpty(ai.idea) # <<>> THEN ai.idea ELSE rq.note
    IN  /\ rq.pc = "dispatch"
        /\ Dispatch(ai) = "remind"
        /\ \E parsed \in {ParsedRemindAt(ai.remind_at)} :
           \E fire_at \in {IF parsed # None THEN parsed[1] ELSE PlusMinutes(clock, 5)} :
              /\ reminders' = Append(reminders,
                                     Reminder(nextReminderId, message, fire_at, None))
              /\ req' = [req EXCEPT ![r] =
                            Advance(rq, NoteOut("remind", None, message, Some(fire_at)))]
        /\ nextReminderId' = nextReminderId + 1
        /\ UNCHANGED <<entries, summaries, nextEntryId, clock, hist, workload, poll, pureVars>>

\* _process_single_ai, lines 275-302: the entry fields and the Dedup Guard
AddDedup(r) ==
    LET rq  == req[r]
        ai  == rq.ai_list[rq.i]
    IN  /\ rq.pc = "dispatch"
        /\ Dispatch(ai) = "add"
        /\ \E f \in {AddFields(ai, rq.note)} :
           \E dup \in {FirstSimilar(ProcessedWithTags(entries, f.tags), f.summary)} :
              req' = [req EXCEPT ![r] =
                      IF dup # None
                      THEN Advance(rq, NoteOut("add", Some(dup[1].id), OrNull(f.summary), None))
                      ELSE [rq EXCEPT !.pc = "insert", !.summary = f.summary,
                                      !.tags = f.tags,
                                      !.content_to_store = f.content_to_store]]
        /\ UNCHANGED <<storeVars, clock, hist, workload, poll, pureVars>>

\* _process_single_ai, lines 304-311 and 317: the insert and its commit
AddInsert(r) ==
    LET rq == req[r]
    IN  /\ rq.pc = "insert"
        /\ IF ContentTaken(entries, rq.content_to_store)
           THEN /\ req' = [req EXCEPT ![r].pc = "requery"]
                /\ UNCHANGED <<entries, nextEntryId>>
           ELSE /\ entries' = Append(entries,
                        InboxEntry(nextEntryId, rq.content_to_store, rq.summary, rq.tags))
                /\ nextEntryId' = nextEntryId + 1
                /\ req' = [req EXCEPT ![r].pc = "export", ![r].db_entry = nextEntryId]
        /\ UNCHANGED <<reminders, summaries, nextReminderId, clock, hist, workload, poll, pureVars>>

\* AddRequery answering 409 whatever the store holds
AddRequery_Conflict(r) ==
    LET rq == req[r]
    IN  /\ rq.pc = "requery"
        /\ req' = [req EXCEPT ![r] = IdleReq]
        /\ hist' = Append(hist,
              ReturnEvent("add_note", r, rq.note, rq.ai_list, rq.results, 409, entries))
        /\ UNCHANGED <<storeVars, clock, workload, poll, pureVars>>

\* _process_single_ai, lines 312-316: after IntegrityError, the row that holds
\* the content, or 409
AddRequery(r) ==
    LET rq == req[r]
        existing == FirstByContent(entries, rq.content_to_store)
    IN  /\ rq.pc = "requery"
        /\ IF existing # None
           THEN /\ req' = [req EXCEPT ![r] =
                    Advance(rq, NoteOut("add", Some(existing[1].id), OrNull(rq.summary), None))]
                /\ hist' = hist
           ELSE /\ req' = [req EXCEPT ![r] = IdleReq]
                /\ hist' = Append(hist,
                      ReturnEvent("add_note", r, rq.note, rq.ai_list, rq.results, 409, entries))
        /\ UNCHANGED <<storeVars, clock, workload, poll, pureVars>>

\* an export step that marks the entry processed whether or not the file
\* was written
AddExport_AlwaysProcessed(r) ==
    LET rq == req[r]
    IN  /\ rq.pc = "export"
        /\ entries' = [k \in 1..Len(entries) |->
               IF entries[k].id = rq.db_entry
               THEN [entries[k] EXCEPT !.status = "processed", !.destination = <<"m","d">>]
               ELSE entries[k]]
        /\ \E exported \in BOOLEAN :
              hist' = IF exported THEN hist
                      ELSE Append(hist, ExportFailedEvent(r, rq.note, rq.ai_list))
        /\ req' = [req EXCEPT ![r].pc = "summarize"]
        /\ UNCHANGED <<reminders, summaries, nextEntryId, nextReminderId, clock,
                       workload, poll, pureVars>>

\* _process_single_ai, lines 319-327: export, then the entry is processed; a
\* failure of export_to_markdown is swallowed
AddExport(r) ==
    LET rq == req[r]
    IN  /\ rq.pc = "export"
        /\ \E exported \in BOOLEAN :
              IF exported
              THEN /\ entries' = [k \in 1..Len(entries) |->
                          IF entries[k].id = rq.db_entry
                          THEN [entries[k] EXCEPT !.status = "processed",
                                                  !.destination = <<"m","d">>]
                          ELSE entries[k]]
                   /\ hist' = hist
              ELSE /\ entries' = entries
                   /\ hist' = Append(hist, ExportFailedEvent(r, rq.note, rq.ai_list))
        /\ req' = [req EXCEPT ![r].pc = "summarize"]
        /\ UNCHANGED <<reminders, summaries, nextEntryId, nextReminderId, clock,
                       workload, poll, pureVars>>

\* hist: request r called request_summary for the pair of its current result
SummarizeEvent(r, note, ai_list) ==
    [ev |-> "summarize", op |-> "add_note", r |-> r, note |-> note, ai_list |-> ai_list,
     results |-> <<>>, error |-> 0, ids |-> {}, export_failed |-> FALSE,
     reminder |-> 0, delivered |-> FALSE, existing_groups |-> <<>>]

\* hist: in request r a trigger (op) failed: request_summary gave no text,
\* or the commit of _maybe_auto_summarize or of _maybe_auto_reminder raised
TriggerFailedEvent(op, r, note, ai_list) ==
    [ev |-> "trigger_failed", op |-> op, r |-> r, note |-> note, ai_list |-> ai_list,
     results |-> <<>>, error |-> 0, ids |-> {}, export_failed |-> FALSE,
     reminder |-> 0, delivered |-> FALSE, existing_groups |-> <<>>]

\* db.commit() in a trigger: done (TRUE), or an error of the store
CommitOutcomes == IF workload.faults THEN BOOLEAN ELSE {TRUE}

\* the GroupSummary rows of a pair, by position
SummaryRows(sums, group, subgroup) ==
    {k \in 1..Len(sums) : sums[k].group_name = group /\ sums[k].subgroup_name = subgroup}

\* _process_single_ai, lines 329-336, with lines 122-127 of
\* _maybe_auto_summarize: the ideas of the pair are counted and, past the
\* threshold, request_summary is called; without a text the result is done
AddSummarize(r) ==
    LET rq == req[r]
        ai == rq.ai_list[rq.i]
        called == Append(hist, SummarizeEvent(r, rq.note, rq.ai_list))
    IN  /\ rq.pc = "summarize"
        /\ \E ideas \in {_get_group_ideas(entries, ai.group, ai.subgroup)} :
              IF OrEmpty(ai.group) # <<>> /\ Len(ideas) > SummaryThreshold
              THEN \E text \in SummaryTexts :
                      IF text # <<>>
                      THEN /\ hist' = called
                           /\ req' = [req EXCEPT ![r].pc = "summary_query", ![r].text = text]
                      ELSE /\ hist' = Append(called,
                                  TriggerFailedEvent("request_summary", r, rq.note, rq.ai_list))
                           /\ req' = [req EXCEPT ![r] =
                                         Advance(rq, NoteOut("add", Some(rq.db_entry),
                                                             OrNull(rq.summary), None))]
              ELSE /\ hist' = hist
                   /\ req' = [req EXCEPT ![r] =
                                 Advance(rq, NoteOut("add", Some(rq.db_entry),
                                                     OrNull(rq.summary), None))]
        /\ UNCHANGED <<storeVars, clock, workload, poll, pureVars>>

\* _maybe_auto_summarize, lines 128-131: the query for the pair's row
SummaryQuery(r) ==
    LET rq == req[r]
        ai == rq.ai_list[rq.i]
    IN  /\ rq.pc = "summary_query"
        /\ req' = [req EXCEPT ![r].pc = "summary_commit",
                              ![r].existing =
                                  SummaryRows(summaries, ai.group, ai.subgroup) # {}]
        /\ UNCHANGED <<storeVars, clock, hist, workload, poll, pureVars>>

\* _maybe_auto_summarize, lines 132-137: the row found is updated, or one is
\* added, and the session commits; an error of the commit is swallowed at
\* line 332; then _process_single_ai returns (335-336)
SummaryCommit(r) ==
    LET rq == req[r]
        ai == rq.ai_list[rq.i]
        row == [group_name |-> ai.group, subgroup_name |-> ai.subgroup, summary |-> rq.text]
    IN  /\ rq.pc = "summary_commit"
        /\ \E committed \in CommitOutcomes :
              IF committed
              THEN /\ summaries' = IF rq.existing
                                   THEN UpsertSummary(summaries, ai.group, ai.subgroup, rq.text)
                                   ELSE Append(summaries, row)
                   /\ hist' = hist
              ELSE /\ summaries' = summaries
                   /\ hist' = Append(hist,
                          TriggerFailedEvent("_maybe_auto_summarize", r, rq.note, rq.ai_list))
        /\ req' = [req EXCEPT ![r] =
                      Advance(rq, NoteOut("add", Some(rq.db_entry), OrNull(rq.summary), None))]
        /\ UNCHANGED <<entries, reminders, nextEntryId, nextReminderId, clock,
                       workload, poll, pureVars>>

\* _maybe_auto_reminder: None, or the reminder to add
_maybe_auto_reminder(note_content, add_results, now_) ==
    LET fire_at == _auto_fire_at(note_content, now_)
        IsLinked(o) == o.action = "add" /\ OrEmpty(o.idea) # <<>> /\ o.entry # None
        HasIdea(o)  == o.action = "add" /\ OrEmpty(o.idea) # <<>>
        linked   == SelectSeq(add_results, IsLinked)
        withIdea == SelectSeq(add_results, HasIdea)
        message  == IF linked # <<>> THEN linked[1].idea
                    ELSE IF withIdea # <<>> THEN withIdea[1].idea
                    ELSE NULL
        entry_id == IF linked # <<>> THEN linked[1].entry ELSE None
    IN  IF fire_at = None THEN None
        ELSE IF message = NULL THEN None
        ELSE Some([message |-> message, fire_at |-> fire_at[1], entry_id |-> entry_id])

\* an add_note that looks for an automatic reminder whenever an outcome is Add
AutoReminder_IgnoresRemind(r) ==
    LET rq == req[r]
        has_add == \E k \in 1..Len(rq.results) : rq.results[k].action = "add"
    IN  /\ rq.pc = "auto_reminder"
        /\ \E auto \in {IF has_add THEN _maybe_auto_reminder(rq.note, rq.results, clock)
                         ELSE None} :
              IF auto # None
              THEN /\ reminders' = Append(reminders,
                         Reminder(nextReminderId, auto[1].message, auto[1].fire_at,
                                  auto[1].entry_id))
                   /\ nextReminderId' = nextReminderId + 1
                   /\ hist' = Append(hist,
                         ReturnEvent("add_note", r, rq.note, rq.ai_list,
                            Append(rq.results,
                               NoteOut("remind", None, auto[1].message, Some(auto[1].fire_at))),
                            0, entries))
              ELSE /\ UNCHANGED <<reminders, nextReminderId>>
                   /\ hist' = Append(hist,
                         ReturnEvent("add_note", r, rq.note, rq.ai_list, rq.results, 0, entries))
        /\ req' = [req EXCEPT ![r] = IdleReq]
        /\ UNCHANGED <<entries, summaries, nextEntryId, clock, workload, poll, pureVars>>

\* add_note, lines 393-400: the automatic reminder, and the response; an
\* error of the commit at line 83 is caught nowhere and ends the request
AutoReminder(r) ==
    LET rq == req[r]
        has_add    == \E k \in 1..Len(rq.results) : rq.results[k].action = "add"
        has_remind == \E k \in 1..Len(rq.results) : rq.results[k].action = "remind"
    IN  /\ rq.pc = "auto_reminder"
        /\ \E auto \in {IF has_add /\ ~has_remind
                         THEN _maybe_auto_reminder(rq.note, rq.results, clock)
                         ELSE None} :
              IF auto # None
              THEN \E committed \in CommitOutcomes :
                      IF committed
                      THEN /\ reminders' = Append(reminders,
                                 Reminder(nextReminderId, auto[1].message, auto[1].fire_at,
                                          auto[1].entry_id))
                           /\ nextReminderId' = nextReminderId + 1
                           /\ hist' = Append(hist,
                                 ReturnEvent("add_note", r, rq.note, rq.ai_list,
                                    Append(rq.results,
                                       NoteOut("remind", None, auto[1].message,
                                               Some(auto[1].fire_at))),
                                    0, entries))
                      ELSE /\ UNCHANGED <<reminders, nextReminderId>>
                           /\ hist' = hist
                                 \o <<TriggerFailedEvent("_maybe_auto_reminder", r, rq.note,
                                                         rq.ai_list),
                                      ReturnEvent("add_note", r, rq.note, rq.ai_list,
                                                  rq.results, 500, entries)>>
              ELSE /\ UNCHANGED <<reminders, nextReminderId>>
                   /\ hist' = Append(hist,
                         ReturnEvent("add_note", r, rq.note, rq.ai_list, rq.results, 0, entries))
        /\ req' = [req EXCEPT ![r] = IdleReq]
        /\ UNCHANGED <<entries, summaries, nextEntryId, clock, workload, poll, pureVars>>

\* batch_save: the entries after the items from position k on, and the count saved
RECURSIVE BatchSaveFrom(_, _, _, _)
BatchSaveFrom(es, nextId, items, k) ==
    IF k > Len(items) THEN [es |-> es, nextId |-> nextId]
    ELSE LET item == items[k]
             tags == IF OrEmpty(item.subgroup) # <<>>
                     THEN item.group \o <<",">> \o item.subgroup ELSE item.group
             rows == ProcessedWithTags(es, tags)
             skip == \/ FirstSimilar(rows, item.idea) # None
                     \/ ContentTaken(es, item.idea)
         IN  IF skip THEN BatchSaveFrom(es, nextId, items, k + 1)
             ELSE BatchSaveFrom(
                    Append(es, [InboxEntry(nextId, item.idea, item.idea, tags)
                                    EXCEPT !.status = "processed"]),
                    nextId + 1, items, k + 1)

\* batch_save, lines 340-370
BatchSave ==
    /\ OtherAllowed
    /\ \E batch \in Batches :
          LET after == BatchSaveFrom(entries, nextEntryId, batch, 1)
          IN  /\ entries' = after.es
              /\ nextEntryId' = after.nextId
              /\ hist' = hist \o
                    << CallEvent("batch_save", 0, <<>>, None),
                       ReturnEvent("batch_save", 0, <<>>, None, <<>>, 0, after.es) >>
    /\ UNCHANGED <<reminders, summaries, nextReminderId, clock, req, workload, poll, pureVars>>

\* create_entry, lines 406-421
CreateEntry ==
    /\ OtherAllowed
    /\ \E content \in workload.notes :
          IF ContentTaken(entries, content)
          THEN /\ hist' = hist \o
                    << CallEvent("create_entry", 0, content, None),
                       ReturnEvent("create_entry", 0, content, None, <<>>, 409, entries) >>
               /\ UNCHANGED <<entries, nextEntryId>>
          ELSE LET es == Append(entries, InboxEntry(nextEntryId, content, NULL, NULL))
               IN  /\ entries' = es
                   /\ nextEntryId' = nextEntryId + 1
                   /\ hist' = hist \o
                        << CallEvent("create_entry", 0, content, None),
                           ReturnEvent("create_entry", 0, content, None, <<>>, 0, es) >>
    /\ UNCHANGED <<reminders, summaries, nextReminderId, clock, req, workload, poll, pureVars>>

\* the rows with the status of those in hits (positions) set to "discarded"
Discarded(es, hits) ==
    [k \in 1..Len(es) |-> IF k \in hits THEN [es[k] EXCEPT !.status = "discarded"] ELSE es[k]]

\* the workload lets a removal handler be called now
DiscardAllowed ==
    NumCalls({"discard_entry", "delete_group", "delete_subgroup"}) < workload.discards

\* discard_entry, lines 473-479: 404 for an unknown id, else the status
\* becomes "discarded"
DiscardEntry ==
    /\ DiscardAllowed
    /\ \E entry_id \in 1..nextEntryId :
          \E es \in {Discarded(entries, {k \in 1..Len(entries) : entries[k].id = entry_id})} :
             /\ entries' = es
             /\ hist' = hist \o
                   << CallEvent("discard_entry", 0, <<>>, None),
                      ReturnEvent("discard_entry", 0, <<>>, None, <<>>,
                                  IF entry_id \in EntryIds(entries) THEN 0 ELSE 404, es) >>
    /\ UNCHANGED <<reminders, summaries, nextEntryId, nextReminderId, clock, req, workload,
                   poll, pureVars>>

\* delete_group, lines 482-490: the processed entries whose first tag is
\* group_name become "discarded"
DeleteGroup ==
    /\ DiscardAllowed
    /\ \E group_name \in {TxtGroup, TxtSub} :
          \E es \in {Discarded(entries,
                        {k \in 1..Len(entries) :
                            /\ entries[k].status = "processed"
                            /\ TagParts(entries[k].tags) # <<>>
                            /\ TagParts(entries[k].tags)[1] = group_name})} :
             /\ entries' = es
             /\ hist' = hist \o
                   << CallEvent("delete_group", 0, <<>>, None),
                      ReturnEvent("delete_group", 0, <<>>, None, <<>>, 0, es) >>
    /\ UNCHANGED <<reminders, summaries, nextEntryId, nextReminderId, clock, req, workload,
                   poll, pureVars>>

\* delete_subgroup, lines 523-531: the processed entries tagged
\* group_name, subgroup_name become "discarded"
DeleteSubgroup ==
    /\ DiscardAllowed
    /\ \E group_name \in {TxtGroup}, subgroup_name \in {TxtSub, TxtGroup} :
          \E es \in {Discarded(entries,
                        {k \in 1..Len(entries) :
                            /\ entries[k].status = "processed"
                            /\ Len(TagParts(entries[k].tags)) >= 2
                            /\ TagParts(entries[k].tags)[1] = group_name
                            /\ TagParts(entries[k].tags)[2] = subgroup_name})} :
             /\ entries' = es
             /\ hist' = hist \o
                   << CallEvent("delete_subgroup", 0, <<>>, None),
                      ReturnEvent("delete_subgroup", 0, <<>>, None, <<>>, 0, es) >>
    /\ UNCHANGED <<reminders, summaries, nextEntryId, nextReminderId, clock, req, workload,
                   poll, pureVars>>

\* ", ".join(parts)
RECURSIVE JoinCommaSpace(_)
JoinCommaSpace(parts) ==
    IF parts = <<>> THEN <<>>
    ELSE IF Len(parts) = 1 THEN parts[1]
    ELSE parts[1] \o <<",", " ">> \o JoinCommaSpace(Tail(parts))

\* the rows at positions hits with part idx of their tags replaced by
\* new_name and the parts joined again
Renamed(es, hits, idx, new_name) ==
    [k \in 1..Len(es) |->
        IF k \in hits
        THEN [es[k] EXCEPT !.tags =
                 JoinCommaSpace([TagParts(es[k].tags) EXCEPT ![idx] = new_name])]
        ELSE es[k]]

RenameAllowed == NumCalls({"rename_group", "rename_subgroup"}) < workload.renames

\* rename_group, lines 497-508: the processed entries whose first tag is
\* group_name get new_name as first tag
RenameGroup ==
    /\ RenameAllowed
    /\ \E group_name \in {TxtGroup}, new_name \in {TxtNewName} :
          \E es \in {Renamed(entries,
                        {k \in 1..Len(entries) :
                            /\ entries[k].status = "processed"
                            /\ TagParts(entries[k].tags) # <<>>
                            /\ TagParts(entries[k].tags)[1] = group_name},
                        1, new_name)} :
             /\ entries' = es
             /\ hist' = hist \o
                   << CallEvent("rename_group", 0, <<>>, None),
                      ReturnEvent("rename_group", 0, <<>>, None, <<>>, 0, es) >>
    /\ UNCHANGED <<reminders, summaries, nextEntryId, nextReminderId, clock, req, workload,
                   poll, pureVars>>

\* rename_subgroup, lines 511-520: the processed entries tagged
\* group_name, subgroup_name get new_name as second tag
RenameSubgroup ==
    /\ RenameAllowed
    /\ \E group_name \in {TxtGroup, TxtNewName}, subgroup_name \in {TxtSub},
          new_name \in {TxtNewName} :
          \E es \in {Renamed(entries,
                        {k \in 1..Len(entries) :
                            /\ entries[k].status = "processed"
                            /\ Len(TagParts(entries[k].tags)) >= 2
                            /\ TagParts(entries[k].tags)[1] = group_name
                            /\ TagParts(entries[k].tags)[2] = subgroup_name},
                        2, new_name)} :
             /\ entries' = es
             /\ hist' = hist \o
                   << CallEvent("rename_subgroup", 0, <<>>, None),
                      ReturnEvent("rename_subgroup", 0, <<>>, None, <<>>, 0, es) >>
    /\ UNCHANGED <<reminders, summaries, nextEntryId, nextReminderId, clock, req, workload,
                   poll, pureVars>>

(***************************************************************************)
(* The scheduler and the reminder handlers                                 *)
(***************************************************************************)
\* hist: an event of _check_reminders or of delete_reminder about reminder id
ReminderEvent(ev, op, id, error, delivered, es) ==
    [ev |-> ev, op |-> op, r |-> 0, note |-> <<>>, ai_list |-> None,
     results |-> <<>>, error |-> error, ids |-> EntryIds(es), export_failed |-> FALSE,
     reminder |-> id, delivered |-> delivered, existing_groups |-> <<>>]

ReminderIds(rs) == {rs[k].id : k \in 1..Len(rs)}

\* hist with the events of the scheduler added; a workload that lets the
\* scheduler run for ever keeps no record of its runs
Logged(events) == IF workload.live THEN hist ELSE hist \o events

\* the workload lets _check_reminders run now
PollAllowed == workload.live \/ NumCalls({"check_reminders"}) < workload.polls

\* query(Reminder).filter(sent == False, fire_at <= now).all()
DueReminders(rs, now_) ==
    LET Keep(r) == ~r.sent /\ Seconds(r.fire_at) <= Seconds(now_)
    IN  SelectSeq(rs, Keep)

\* a commit that writes the sent column of every row: true for ids, false
\* for the others
MarkSent_OnlyThese(rs, ids) ==
    [k \in 1..Len(rs) |-> [rs[k] EXCEPT !.sent = (rs[k].id \in ids)]]

\* the rows with the reminders ids marked as sent
MarkSent(rs, ids) ==
    [k \in 1..Len(rs) |-> IF rs[k].id \in ids THEN [rs[k] EXCEPT !.sent = TRUE] ELSE rs[k]]

\* the rows of es whose id is not in ids; deleting an absent row changes nothing
WithoutIds(es, ids) ==
    LET Keep(e) == e.id \notin ids
    IN  SelectSeq(es, Keep)

\* the session's flush raises StaleDataError: an UPDATE of the rows dirty
\* matched fewer rows than expected. The count is compared for an UPDATE of
\* one row; for several rows at once it is where the driver reports it (sane)
FlushRaises(dirty, rs, sane) ==
    /\ dirty \ ReminderIds(rs) # {}
    /\ Cardinality(dirty) = 1 \/ sane

\* _check_reminders, lines 167-171: the query of the due reminders; the
\* scheduler does not start a run while one is running
PollQuery ==
    /\ poll.pc = "idle"
    /\ PollAllowed
    /\ \E due \in {DueReminders(reminders, clock)} :
          IF due = <<>>
          THEN /\ poll' = poll
               /\ hist' = Logged(
                     << ReminderEvent("call", "check_reminders", 0, 0, FALSE, entries),
                        ReminderEvent("return", "check_reminders", 0, 0, FALSE, entries) >>)
          ELSE /\ poll' = [IdlePoll EXCEPT !.pc = "fire", !.due = due, !.k = 1]
               /\ hist' = Logged(<<
                     ReminderEvent("call", "check_reminders", 0, 0, FALSE, entries) >>)
    /\ UNCHANGED <<storeVars, clock, req, workload, pureVars>>

\* a scheduler that leaves a reminder whose delivery failed for a later run:
\* neither sent nor its linked entry is touched
PollFire_RetryUndelivered ==
    /\ poll.pc = "fire"
    /\ \E delivered \in BOOLEAN, sane \in BOOLEAN :
       \E r \in {poll.due[poll.k]} :
       \E dirty \in {IF delivered THEN poll.dirty \cup {r.id} ELSE poll.dirty} :
          IF delivered /\ r.entry_id # None /\ FlushRaises(dirty, reminders, sane)
          THEN /\ poll' = IdlePoll
               /\ hist' = Logged(
                     << ReminderEvent("notify", "check_reminders", r.id, 0, delivered, entries),
                        ReminderEvent("return", "check_reminders", 0, 500, FALSE, entries) >>)
          ELSE /\ poll' =
                     [poll EXCEPT
                        !.k = @ + 1,
                        !.pc = IF poll.k = Len(poll.due) THEN "commit" ELSE "fire",
                        !.dirty = IF delivered /\ r.entry_id # None THEN {} ELSE dirty,
                        !.flushed = IF delivered /\ r.entry_id # None THEN @ \cup dirty ELSE @,
                        !.doomed = IF /\ delivered /\ r.entry_id # None
                                      /\ r.entry_id[1] \in EntryIds(entries)
                                   THEN @ \cup {r.entry_id[1]} ELSE @]
               /\ hist' = Logged(<<
                     ReminderEvent("notify", "check_reminders", r.id, 0, delivered, entries) >>)
    /\ UNCHANGED <<storeVars, clock, req, workload, pureVars>>

\* _check_reminders, lines 172-179, for one due reminder: the notification
\* (a failure of delivery is logged), r.sent = True, and for a linked entry
\* the query of the entry, which first flushes the session, and db.delete
PollFire ==
    /\ poll.pc = "fire"
    /\ \E delivered \in BOOLEAN, sane \in BOOLEAN :
       \E r \in {poll.due[poll.k]} :
       \E dirty \in {poll.dirty \cup {r.id}} :
          IF r.entry_id # None /\ FlushRaises(dirty, reminders, sane)
          THEN /\ poll' = IdlePoll
               /\ hist' = Logged(
                     << ReminderEvent("notify", "check_reminders", r.id, 0, delivered, entries),
                        ReminderEvent("return", "check_reminders", 0, 500, FALSE, entries) >>)
          ELSE /\ poll' =
                     [poll EXCEPT
                        !.k = @ + 1,
                        !.pc = IF poll.k = Len(poll.due) THEN "commit" ELSE "fire",
                        !.dirty = IF r.entry_id # None THEN {} ELSE dirty,
                        !.flushed = IF r.entry_id # None THEN @ \cup dirty ELSE @,
                        !.doomed = IF r.entry_id # None /\ r.entry_id[1] \in EntryIds(entries)
                                   THEN @ \cup {r.entry_id[1]} ELSE @]
               /\ hist' = Logged(<<
                     ReminderEvent("notify", "check_reminders", r.id, 0, delivered, entries) >>)
    /\ UNCHANGED <<storeVars, clock, req, workload, pureVars>>

\* a scheduler that ends its run without the commit of line 181: the
\* session is closed and what the run changed is lost
PollCommit_NoCommit ==
    /\ poll.pc = "commit"
    /\ poll' = IdlePoll
    /\ hist' = Logged(<<
          ReminderEvent("return", "check_reminders", 0, 0, FALSE, entries) >>)
    /\ UNCHANGED <<storeVars, clock, req, workload, pureVars>>

\* _check_reminders, lines 180-183: the commit; when its flush raises, the
\* session is closed and everything the run changed is rolled back
PollCommit ==
    /\ poll.pc = "commit"
    /\ \E sane \in BOOLEAN :
          IF FlushRaises(poll.dirty, reminders, sane)
          THEN /\ UNCHANGED <<reminders, entries>>
               /\ hist' = Logged(<<
                     ReminderEvent("return", "check_reminders", 0, 500, FALSE, entries) >>)
          ELSE /\ reminders' = MarkSent(reminders, poll.flushed \cup poll.dirty)
               /\ entries' = WithoutIds(entries, poll.doomed)
               /\ hist' = Logged(<<
                     ReminderEvent("return", "check_reminders", 0, 0, FALSE,
                                   WithoutIds(entries, poll.doomed)) >>)
    /\ poll' = IdlePoll
    /\ UNCHANGED <<summaries, nextEntryId, nextReminderId, clock, req, workload, pureVars>>

\* delete_reminder, lines 634-644: 404 for an unknown id; else the linked
\* entry, if it is still there, and the reminder are deleted. The request
\* waits while the scheduler's open transaction holds the reminder's row
DeleteReminder ==
    /\ NumCalls({"delete_reminder"}) < workload.delrems
    /\ \E id \in 0..(nextReminderId - 1) :
          /\ id \notin poll.flushed
          /\ IF id \notin ReminderIds(reminders)
             THEN /\ UNCHANGED <<reminders, entries>>
                  /\ hist' = hist \o
                        << ReminderEvent("call", "delete_reminder", id, 0, FALSE, entries),
                           ReminderEvent("return", "delete_reminder", id, 404, FALSE, entries) >>
             ELSE \E r \in {reminders[k] : k \in {j \in 1..Len(reminders) : reminders[j].id = id}} :
                  \E es \in {IF r.entry_id # None THEN WithoutIds(entries, {r.entry_id[1]})
                                                  ELSE entries} :
                     /\ entries' = es
                     /\ reminders' = SelectSeq(reminders, LAMBDA x : x.id # id)
                     /\ hist' = hist \o
                           << ReminderEvent("call", "delete_reminder", id, 0, FALSE, entries),
                              ReminderEvent("return", "delete_reminder", id, 0, FALSE, es) >>
    /\ UNCHANGED <<summaries, nextEntryId, nextReminderId, clock, req, workload, poll,
                   pureVars>>

\* datetime.now() a day later
Tick ==
    /\ clock.day < workload.ticks
    /\ clock' = PlusDays(clock, 1)
    /\ UNCHANGED <<storeVars, req, hist, workload, poll, pureVars>>

Init ==
    /\ workload \in Workloads
    /\ entries = SeedEntries(workload.seed)
    /\ nextEntryId = workload.seed + 1
    /\ reminders = <<>> /\ summaries = <<>>
    /\ nextReminderId = 1
    /\ clock = Now0
    /\ req = [r \in Slots |-> IdleReq]
    /\ hist = <<>>
    /\ poll = IdlePoll
    /\ SimIdle
    /\ FireIdle
    /\ DelIdle

Next ==
    \/ \E r \in Slots :
          \/ AddNoteCall(r)
          \/ Ignore(r)
          \/ DeleteQuery(r)
          \/ DeleteCommit(r)
          \/ Remind(r)
          \/ AddDedup(r)
          \/ AddInsert(r)
          \/ AddRequery(r)
          \/ AddExport(r)
          \/ AddSummarize(r)
          \/ SummaryQuery(r)
          \/ SummaryCommit(r)
          \/ AutoReminder(r)
    \/ AddNoteAiSkipped
    \/ BatchSave
    \/ CreateEntry
    \/ DiscardEntry
    \/ DeleteGroup
    \/ DeleteSubgroup
    \/ RenameGroup
    \/ RenameSubgroup
    \/ PollQuery
    \/ PollFire
    \/ PollCommit
    \/ DeleteReminder
    \/ Tick

Spec == Init /\ [][Next]_vars

\* The scheduler left to run for ever (scheduler.add_job(_check_reminders,
\* "interval", seconds=30), line 188): requests that leave reminders, due at
\* once or a day later, while the clock advances and delete_reminder is
\* called; the runs of the scheduler are not counted and not recorded.
LiveWorkload ==
    [slots |-> 1, calls |-> MaxNotes, fill |-> 0, others |-> 0, notes |-> TimedNotes,
     results |-> DueResults, polls |-> 0, delrems |-> MaxDelRems,
     ticks |-> MaxTicks, seed |-> 0, mixed |-> FALSE, faults |-> FALSE,
     fanout |-> 1, discards |-> 0, live |-> TRUE, renames |-> 0]

InitLive ==
    /\ workload = LiveWorkload
    /\ entries = <<>>
    /\ nextEntryId = 1
    /\ reminders = <<>> /\ summaries = <<>>
    /\ nextReminderId = 1
    /\ clock = Now0
    /\ req = [r \in Slots |-> IdleReq]
    /\ hist = <<>>
    /\ poll = IdlePoll
    /\ SimIdle
    /\ FireIdle
    /\ DelIdle

NextLive ==
    \/ \E r \in Slots :
          \/ AddNoteCall(r)
          \/ Remind(r)
          \/ AddDedup(r)
          \/ AddInsert(r)
          \/ AddRequery(r)
          \/ AddExport(r)
          \/ AddSummarize(r)
          \/ AutoReminder(r)
    \/ PollQuery
    \/ PollFire
    \/ PollCommit
    \/ DeleteReminder
    \/ Tick

\* the interval trigger starts a run every 30 seconds, and a run that has
\* started goes on to its end: a run that raises is logged by the scheduler,
\* which keeps the job
SpecLive == InitLive /\ [][NextLive]_vars /\ WF_vars(PollQuery \/ PollFire \/ PollCommit)

(***************************************************************************)
(* Properties of the fuzzy matcher                                         *)
(***************************************************************************)
SimCalled == simOut # None

\* C5: the fuzzy matcher is symmetric and reflexive, in both copies:
\* _similar(a, b) = _similar(b, a) and _similar(a, a) for all texts a, b.
C5_SimilarSymmetricReflexive ==
    SimCalled =>
        /\ simOut[1].main = _similar(simB, simA)
        /\ simOut[1].bridge = ai_bridge_similar(simB, simA)
        /\ _similar(simA, simA)
        /\ ai_bridge_similar(simA, simA)

\* the relation of section 4.1: equal after normalization, or the shorter
\* normalized text is longer than 3 characters and occurs in the longer one
SpecSimilarRelation(a, b) ==
    LET na == CollapseSpaces(Strip(Lower(a)))
        nb == CollapseSpaces(Strip(Lower(b)))
        shorter == IF Len(na) <= Len(nb) THEN na ELSE nb
        longer  == IF Len(na) <= Len(nb) THEN nb ELSE na
    IN  na = nb \/ (Len(shorter) > 3 /\ Contains(longer, shorter))

\* C6: _similar(a, b) is true exactly when the normalized texts are equal or
\* the shorter one has more than 3 characters and is a substring of the
\* longer one; a text of 3 characters or fewer is similar only to its equals.
C6_SimilarIffShorterInLonger ==
    SimCalled =>
        /\ simOut[1].main = SpecSimilarRelation(simA, simB)
        /\ simOut[1].bridge = SpecSimilarRelation(simA, simB)

(***************************************************************************)
(* Properties of the temporal extractor                                    *)
(***************************************************************************)
FireCalled == fireOut # None
FireResult == fireOut[1]

\* the note carries a time of day within 0..23 / 0..59
ValidTimeOfDay ==
    fireFrag.ok /\ fireFrag.hour \in 0..23 /\ fireFrag.minute \in 0..59

HasTomorrowKw == 
    Contains(Lower(fireText), KwManana) \/ Contains(Lower(fireText), KwMananaAscii)
HasDayAfterKw ==
    Contains(Lower(fireText), KwPasado) \/ Contains(Lower(fireText), KwPasadoAscii)
\* the weekday numbers named in the note
NamedWeekdays ==
    {_WEEKDAYS_BACKEND[w].num : w \in {x \in 1..Len(_WEEKDAYS_BACKEND) :
        Contains(Lower(fireText), _WEEKDAYS_BACKEND[x].name)}}

\* the note's time of day, n days after today
AtDay(n) ==
    [day |-> fireNow.day + n, hour |-> fireFrag.hour,
     minute |-> fireFrag.minute, second |-> 0]

\* C7: with a valid time of day, the day-after-tomorrow keyword yields today
\* + 2 days at HH:MM, and the tomorrow keyword alone today + 1 day at HH:MM.
C7_DayKeywordPriority ==
    (FireCalled /\ ValidTimeOfDay) =>
        /\ HasDayAfterKw => FireResult = Some(AtDay(2))
        /\ (HasTomorrowKw /\ ~HasDayAfterKw) => FireResult = Some(AtDay(1))

\* C8: with a valid time of day, no tomorrow / day-after-tomorrow keyword and
\* a weekday name W, the result is HH:MM on the first date strictly after
\* today whose weekday is W: the offset is in 1..7, and 7 when today is W.
C8_WeekdayStrictlyAfterToday ==
    (FireCalled /\ ValidTimeOfDay /\ ~HasTomorrowKw /\ ~HasDayAfterKw) =>
        \A W \in NamedWeekdays :
            NamedWeekdays = {W} =>
                /\ FireResult # None
                /\ LET offset == FireResult[1].day - fireNow.day
                   IN  /\ offset \in 1..7
                       /\ (fireNow.day + offset) % 7 = W
                       /\ \A k \in 1..(offset - 1) : (fireNow.day + k) % 7 # W
                       /\ Weekday(fireNow) = W => offset = 7
                       /\ FireResult = Some(AtDay(offset))

\* today is the named weekday and the time of day is still ahead: next week
C8_Witness ==
    /\ FireCalled /\ ValidTimeOfDay /\ ~HasTomorrowKw /\ ~HasDayAfterKw
    /\ NamedWeekdays = {Weekday(fireNow)}
    /\ Seconds(AtDay(0)) > Seconds(fireNow)
    /\ FireResult = Some(AtDay(7))

\* C9: with a valid time of day and no day keyword or weekday name the result
\* is today at HH:MM:00 when that is strictly later than now and tomorrow at
\* HH:MM:00 otherwise; every timestamp returned is strictly later than now
\* and has its seconds zeroed.
C9_FutureTimestamp ==
    FireCalled =>
        /\ (ValidTimeOfDay /\ ~HasTomorrowKw /\ ~HasDayAfterKw /\ NamedWeekdays = {}) =>
              FireResult = IF Seconds(AtDay(0)) > Seconds(fireNow)
                           THEN Some(AtDay(0)) ELSE Some(AtDay(1))
        /\ FireResult # None =>
              /\ Seconds(FireResult[1]) > Seconds(fireNow)
              /\ FireResult[1].second = 0

\* the time of day is exactly now: the result is tomorrow
C9_Witness ==
    /\ FireCalled /\ ValidTimeOfDay
    /\ ~HasTomorrowKw /\ ~HasDayAfterKw /\ NamedWeekdays = {}
    /\ Seconds(AtDay(0)) = Seconds(fireNow)
    /\ FireResult = Some(AtDay(1))

(***************************************************************************)
(* Properties of the request handlers                                      *)
(***************************************************************************)
Events == 1..Len(hist)
IsCall(k)   == hist[k].ev = "call"
IsReturn(k) == hist[k].ev = "return"

\* the event at k is the response to the add_note request of slot r
IsReturnTo(k, r) == IsReturn(k) /\ hist[k].op = "add_note" /\ hist[k].r = r

\* an add_note request the provider answered with one result of action add
AnsweredAdd(k) ==
    /\ IsCall(k) /\ hist[k].op = "add_note" /\ hist[k].r \in Slots
    /\ Len(hist[k].ai_list) = 1
    /\ hist[k].ai_list[1].makes_sense /\ hist[k].ai_list[1].action = "add"

HasReturned(k) == \E j \in (k + 1)..Len(hist) : IsReturnTo(j, hist[k].r)

\* the position of the response to the request called at k
ReturnOf(k) ==
    CHOOSE j \in (k + 1)..Len(hist) :
        /\ IsReturnTo(j, hist[k].r)
        /\ \A i \in (k + 1)..(j - 1) : ~IsReturnTo(i, hist[k].r)

\* the request called at k had the server to itself until it returned
RanAlone(k) ==
    /\ HasReturned(k)
    /\ \A i \in (k + 1)..(ReturnOf(k) - 1) :
          hist[i].ev = "export" /\ hist[i].r = hist[k].r

\* no request was in flight when the one at k was called
Quiet(k) ==
    \A i \in 1..(k - 1) :
        (IsCall(i) /\ hist[i].r \in Slots) => (HasReturned(i) /\ ReturnOf(i) < k)

SameInputs(k, k2) ==
    hist[k].note = hist[k2].note /\ hist[k].ai_list = hist[k2].ai_list

\* the request called at k ran alone, and was sent again right after its
\* response; that second request ran alone as well
Resubmitted(k) ==
    /\ AnsweredAdd(k) /\ Quiet(k) /\ RanAlone(k)
    /\ ReturnOf(k) < Len(hist)
    /\ AnsweredAdd(ReturnOf(k) + 1)
    /\ SameInputs(k, ReturnOf(k) + 1)
    /\ RanAlone(ReturnOf(k) + 1)

\* the response is one Add outcome showing an entry
AddOutcome(ret) ==
    /\ ret.error = 0
    /\ Len(ret.results) >= 1
    /\ ret.results[1].action = "add"
    /\ ret.results[1].entry # None

\* the rows of the store with this id
RowsWithId(id) == {n \in 1..Len(entries) : entries[n].id = id}
RowsWithContent(content) == {n \in 1..Len(entries) : entries[n].content = content}

\* C1: add_note run twice in sequence with the same note and the same add
\* result: the second call adds no entry and its Add outcome shows the entry
\* of the first call's outcome, which is in the store exactly once, whether
\* the first call's export succeeded or failed.
C1_ResubmissionIdempotent ==
    \A k \in Events :
        Resubmitted(k) =>
            LET first  == hist[ReturnOf(k)]
                second == hist[ReturnOf(ReturnOf(k) + 1)]
            IN  /\ AddOutcome(first) /\ AddOutcome(second)
                /\ second.results[1].entry = first.results[1].entry
                /\ first.results[1].entry[1] \in second.ids
                /\ second.ids = first.ids
                /\ ReturnOf(ReturnOf(k) + 1) = Len(hist) =>
                      Cardinality(RowsWithId(first.results[1].entry[1])) = 1

\* the first call's export failed, and the second call answered
C1_Witness ==
    \E k \in Events :
        /\ Resubmitted(k)
        /\ hist[k + 1].ev = "export"
        /\ ReturnOf(ReturnOf(k) + 1) = Len(hist)
        /\ \E n \in 1..Len(entries) :
              /\ Some(entries[n].id) = hist[Len(hist)].results[1].entry
              /\ entries[n].status = "pending"

\* the store's ids when the request at k was called: those of the last
\* response before it, or those the store started with
IdsBefore(k) ==
    LET rets == {j \in 1..(k - 1) : IsReturn(j)}
    IN  IF rets = {} THEN EntryIds(SeedEntries(workload.seed))
        ELSE hist[CHOOSE j \in rets : \A i \in rets : i <= j].ids

\* the requests called at k and k2 were in flight together with the same
\* inputs, no other request was in flight or ran meanwhile, and both have
\* returned
Raced(k, k2) ==
    /\ k < k2
    /\ AnsweredAdd(k) /\ AnsweredAdd(k2)
    /\ Quiet(k)
    /\ SameInputs(k, k2)
    /\ HasReturned(k) /\ HasReturned(k2)
    /\ k2 < ReturnOf(k)
    /\ \A i \in k..Len(hist) :
          (i <= ReturnOf(k) \/ i <= ReturnOf(k2)) => hist[i].r \in {hist[k].r, hist[k2].r}

\* the entry e stands for the result ai of the note: it holds the content the
\* Add pipeline stores, or it is the near-duplicate the Dedup Guard answers with
StandsFor(e, ai, note) ==
    \E f \in {AddFields(ai, note)} :
        \/ e.content = f.content_to_store
        \/ /\ e.status = "processed" /\ e.tags = f.tags
           /\ _similar(OrEmpty(e.summary), f.summary)

\* C2: two add_note requests in flight together with the same note and the
\* same add result, under every interleaving: neither fails, both return an
\* Add outcome showing the same entry, the two together add at most one row,
\* and the store holds that entry once and no second row with the content.
C2_ConcurrentDuplicatesOneEntry ==
    \A k, k2 \in Events :
        Raced(k, k2) =>
            LET a == hist[ReturnOf(k)]
                b == hist[ReturnOf(k2)]
                last == IF ReturnOf(k) > ReturnOf(k2) THEN a ELSE b
            IN  /\ AddOutcome(a) /\ AddOutcome(b)
                /\ a.results[1].entry = b.results[1].entry
                /\ a.results[1].entry[1] \in last.ids
                /\ Cardinality(last.ids) <= Cardinality(IdsBefore(k)) + 1
                /\ (ReturnOf(k) = Len(hist) \/ ReturnOf(k2) = Len(hist)) =>
                      \E f \in {AddFields(hist[k].ai_list[1], hist[k].note)} :
                         /\ Cardinality(RowsWithContent(f.content_to_store)) <= 1
                         /\ \A n \in RowsWithId(a.results[1].entry[1]) :
                               StandsFor(entries[n], hist[k].ai_list[1], hist[k].note)
                         /\ Cardinality(RowsWithId(a.results[1].entry[1])) = 1

\* both requests passed the Dedup Guard before either inserted: the second
\* insert was refused, and both responses show the row of the first
C2_Witness ==
    \E k, k2 \in Events :
        /\ Raced(k, k2)
        /\ ReturnOf(k) = Len(hist) \/ ReturnOf(k2) = Len(hist)
        /\ Cardinality(hist[Len(hist)].ids) = Cardinality(IdsBefore(k)) + 1
        /\ hist[ReturnOf(k)].results[1].entry = hist[ReturnOf(k2)].results[1].entry
        /\ \E n \in 1..Len(entries) :
              /\ Some(entries[n].id) = hist[Len(hist)].results[1].entry
              /\ entries[n].status = "pending"

\* only add_note has been called, one request after the other, and no export
\* has failed
OnlySequentialAdds ==
    \A k \in Events :
        /\ hist[k].op = "add_note"
        /\ hist[k].ev # "export"
        /\ (IsCall(k) /\ k < Len(hist)) =>
              (IsReturn(k + 1) /\ hist[k + 1].r = hist[k].r)

\* two distinct processed entries with the same tag path and fuzzily similar
\* summaries
SimilarProcessedPair ==
    \E i, j \in 1..Len(entries) :
        /\ i < j
        /\ entries[i].status = "processed" /\ entries[j].status = "processed"
        /\ entries[i].tags # NULL /\ entries[i].tags = entries[j].tags
        /\ \/ _similar(OrEmpty(entries[i].summary), OrEmpty(entries[j].summary))
           \/ _similar(OrEmpty(entries[j].summary), OrEmpty(entries[i].summary))

\* C3: after any sequence of add_note submissions from an empty store, every
\* export succeeding, no two distinct processed entries with the same tag
\* path have summaries that are fuzzily similar in either direction.
C3_NoSimilarProcessedPair ==
    OnlySequentialAdds => ~SimilarProcessedPair

\* C4: in every reachable state, after any add_note (the provider answering
\* or not), batch_save and create_entry requests, no two entries of the store
\* have the same content.
C4_ContentUnique ==
    \A i, j \in 1..Len(entries) :
        i # j => entries[i].content # entries[j].content

\* a commit was refused: a request is about to look up the row that holds
\* its content, beside another row
C4_Witness ==
    /\ Len(entries) >= 2
    /\ \E r \in Slots :
          /\ req[r].pc = "requery"
          /\ ContentTaken(entries, req[r].content_to_store)

\* the note has no time of day, or one whose hour is outside 0..23 or whose
\* minute is outside 0..59
NoUsableTime(note) ==
    LET t == TimeFragOf(note)
    IN  ~t.ok \/ t.hour \notin 0..23 \/ t.minute \notin 0..59

\* C10: for a note without a time of day, or with an hour outside 0..23 or a
\* minute outside 0..59, _auto_fire_at returns None, and the automatic
\* reminder step of add_note creates no Reminder row and appends no Remind
\* outcome to the response.
C10_NoTimeNoAutoReminder ==
    [][\A r \in Slots :
          (AutoReminder(r) /\ NoUsableTime(req[r].note)) =>
              /\ _auto_fire_at(req[r].note, clock) = None
              /\ reminders' = reminders
              /\ hist'[Len(hist')].results = req[r].results]_vars

\* a note with hour 25 was added with an idea, and the response holds the Add
\* outcome alone
C10_Witness ==
    /\ hist # <<>>
    /\ IsReturnTo(Len(hist), 1)
    /\ TimeFragOf(hist[Len(hist)].note).hour = 25
    /\ Len(hist[Len(hist)].results) = 1
    /\ hist[Len(hist)].results[1].action = "add"
    /\ hist[Len(hist)].results[1].idea # NULL
    /\ reminders = <<>>

\* the result request r is processing
CurrentResult(r) == req[r].ai_list[req[r].i]
InProcess(r) == req[r].pc \notin {"idle", "auto_reminder"}
\* the step is one of request r
StepOf(r) == req'[r] # req[r]
\* the step ends the processing of the current result of request r
Completes(r) == Len(req'[r].results) = Len(req[r].results) + 1
LastOutcome(r) == req'[r].results[Len(req'[r].results)]

\* C11: a result whose makes_sense is false gets the Ignore outcome whatever
\* its action (delete and remind included), and its processing leaves the
\* entries, the reminders and the group summaries unchanged.
C11_SenselessIgnored ==
    [][\A r \in Slots :
          (InProcess(r) /\ ~CurrentResult(r).makes_sense /\ StepOf(r)) =>
              /\ Completes(r)
              /\ LastOutcome(r) = NoteOut("ignored", None, NULL, None)
              /\ entries' = entries
              /\ reminders' = reminders
              /\ summaries' = summaries]_vars

\* a senseless result of action delete was ignored on a store holding an entry
C11_Witness ==
    /\ hist # <<>>
    /\ IsReturnTo(Len(hist), 1)
    /\ ~hist[Len(hist)].ai_list[1].makes_sense
    /\ hist[Len(hist)].ai_list[1].action = "delete"
    /\ hist[Len(hist)].results = <<NoteOut("ignored", None, NULL, None)>>
    /\ entries # <<>>

\* the result makes sense and its action is absent or neither add, delete
\* nor remind
UnknownAction(ai) == ai.makes_sense /\ ai.action \notin {"add", "delete", "remind"}

\* C12: a result that makes sense, with the action absent or any value other
\* than delete and remind, takes the branch of add: every step of its
\* processing removes no entry and creates no reminder, and its outcome is an
\* Add outcome showing an entry.
C12_UnknownActionIsAdd ==
    [][\A r \in Slots :
          (InProcess(r) /\ UnknownAction(CurrentResult(r)) /\ StepOf(r)) =>
              /\ Dispatch(CurrentResult(r)) = "add"
              /\ EntryIds(entries) \subseteq EntryIds(entries')
              /\ reminders' = reminders
              /\ Completes(r) =>
                    /\ LastOutcome(r).action = "add"
                    /\ LastOutcome(r).entry # None]_vars

\* a result of action "update" was stored as an entry with its summary
C12_Witness ==
    /\ hist # <<>>
    /\ IsReturnTo(Len(hist), 1)
    /\ hist[Len(hist)].ai_list[1].action = "update"
    /\ AddOutcome(hist[Len(hist)])
    /\ \E n \in RowsWithId(hist[Len(hist)].results[1].entry[1]) :
          /\ entries[n].status = "processed"
          /\ entries[n].summary = <<"P","a","n"," "," ","1","8",":","3","0">>

(***************************************************************************)
(* Properties of the Delete Resolver                                       *)
(***************************************************************************)
DelCalled == delOut # None

\* the fields of an entry the pattern is compared with: group and subgroup
\* from the tag string, idea from the summary or else the content
EntryGroup(e) == IF TagParts(e.tags) # <<>> THEN TagParts(e.tags)[1] ELSE <<>>
EntrySubgroup(e) == IF Len(TagParts(e.tags)) > 1 THEN TagParts(e.tags)[2] ELSE <<>>
EntryIdea(e) == IF OrEmpty(e.summary) # <<>> THEN e.summary ELSE OrEmpty(e.content)

\* a pattern field that is empty once normalized is a wildcard
Wildcard(field) == CollapseSpaces(Strip(Lower(OrEmpty(field)))) = <<>>

\* every pattern field that is not a wildcard is similar, by the relation of
\* section 4.1, to the entry's field
SimilarInEveryField(e, ai) ==
    /\ Wildcard(ai.group)    \/ SpecSimilarRelation(EntryGroup(e), ai.group)
    /\ Wildcard(ai.subgroup) \/ SpecSimilarRelation(EntrySubgroup(e), ai.subgroup)
    /\ Wildcard(ai.idea)     \/ SpecSimilarRelation(EntryIdea(e), ai.idea)

\* C13: _entries_matching_delete returns exactly the processed entries for
\* which every non-empty pattern field (group, subgroup, idea) is fuzzily
\* similar to the entry's field; empty pattern fields are wildcards.
C13_MatchesExactlySimilarFields ==
    DelCalled =>
        LET Keep(e) == e.status = "processed" /\ SimilarInEveryField(e, delAi[1])
        IN  delOut[1].matches = SelectSeq(entries, Keep)

\* the wildcard and conjunction structure of C13 with the matcher as it is:
\* a returned entry is processed, and an entry is returned exactly when
\* _similar(entry field, pattern field) holds for every non-wildcard field
DeleteMatchesByCodeSimilar ==
    DelCalled =>
        \A k \in 1..Len(entries) :
            (\E j \in 1..Len(delOut[1].matches) : delOut[1].matches[j] = entries[k])
            <=> /\ entries[k].status = "processed"
                /\ Wildcard(delAi[1].group)
                      \/ ai_bridge_similar(EntryGroup(entries[k]), delAi[1].group)
                /\ Wildcard(delAi[1].subgroup)
                      \/ ai_bridge_similar(EntrySubgroup(entries[k]), delAi[1].subgroup)
                /\ Wildcard(delAi[1].idea)
                      \/ ai_bridge_similar(EntryIdea(entries[k]), delAi[1].idea)

(***************************************************************************)
(* Properties of the delete action                                         *)
(***************************************************************************)
\* request r takes the step that commits its deletion and answers
DeleteCommits(r) == req[r].pc = "delete_commit" /\ StepOf(r)

\* the store is as it was when request r ran its query
FreshMatches(r) == _entries_matching_delete(entries, CurrentResult(r)) = req[r].deleted

Removed(e) == \A j \in 1..Len(entries') : entries'[j].id # e.id
Kept(e) == \E j \in 1..Len(entries') : entries'[j] = e
IsMatch(e, r) == \E j \in 1..Len(req[r].deleted) : req[r].deleted[j] = e

\* the store part of C14: the commit removes the matched entries and nothing
\* else, leaves no processed entry matching the pattern, and leaves the store
\* unchanged when nothing matched
DeleteStoreEffect ==
    [][\A r \in Slots :
          (DeleteCommits(r) /\ FreshMatches(r)) =>
              /\ \A k \in 1..Len(entries) :
                    IF IsMatch(entries[k], r) THEN Removed(entries[k]) ELSE Kept(entries[k])
              /\ \A k \in 1..Len(entries) :
                    entries[k].status # "processed" => Kept(entries[k])
              /\ EntryIds(entries') \subseteq EntryIds(entries)
              /\ _entries_matching_delete(entries', CurrentResult(r)) = <<>>
              /\ req[r].deleted = <<>> => entries' = entries]_vars

\* C14: a delete action removes every entry matched by the Delete Resolver
\* and nothing else, and its outcome's deleted_count is the number of entries
\* removed (0, the store unchanged, when nothing matches).
C14_DeleteRemovesMatchesAndCounts ==
    [][\A r \in Slots :
          (DeleteCommits(r) /\ FreshMatches(r)) =>
              /\ \A k \in 1..Len(entries) :
                    IF IsMatch(entries[k], r) THEN Removed(entries[k]) ELSE Kept(entries[k])
              /\ _entries_matching_delete(entries', CurrentResult(r)) = <<>>
              /\ Completes(r)
              /\ LastOutcome(r).action = "delete"
              /\ LastOutcome(r).deleted_count = Len(entries) - Len(entries')]_vars

\* a delete removed an entry and left a processed one that did not match
DeleteRemovedSome ==
    /\ hist # <<>> /\ IsReturnTo(Len(hist), 1)
    /\ hist[Len(hist)].ai_list[1].action = "delete"
    /\ \E k \in 1..(Len(hist) - 1) :
          /\ hist[k].ev = "return"
          /\ hist[k].ids \ EntryIds(entries) # {}
    /\ \E k \in 1..Len(entries) : entries[k].status = "processed"

\* C15: a delete action that matches at least one entry completes with a
\* Delete outcome carrying the first deleted entry and the count; it does not
\* fail because the entry it reports is already deleted and committed.
C15_DeleteReturnsFirstDeleted ==
    [][\A r \in Slots :
          (DeleteCommits(r) /\ req[r].deleted # <<>>) =>
              /\ Completes(r)
              /\ LastOutcome(r).action = "delete"
              /\ LastOutcome(r).entry = Some(req[r].deleted[1].id)
              /\ LastOutcome(r).deleted_count = Len(req[r].deleted)]_vars

\* a delete that matched nothing answered with count 0
DeleteMatchedNothing ==
    /\ hist # <<>> /\ IsReturnTo(Len(hist), 1) /\ hist[Len(hist)].error = 0
    /\ hist[Len(hist)].ai_list[1].action = "delete"
    /\ hist[Len(hist)].results[1].deleted_count = 0
    /\ entries # <<>>

(***************************************************************************)
(* Properties of the remind action                                         *)
(***************************************************************************)
\* request r takes the step of a result whose action is remind
RemindSteps(r) ==
    /\ req[r].pc = "dispatch" /\ StepOf(r)
    /\ CurrentResult(r).makes_sense /\ CurrentResult(r).action = "remind"

\* the well-formed timestamps drawn, and the datetimes they denote:
\* 2026-01-05 is day 0, 2026-01-06 day 1, 2026-03-01 day 55
WellFormedStamps ==
    {[at |-> StrValue(IsoPast),    dt |-> [day |-> 0,  hour |-> 7,  minute |-> 0,  second |-> 0]],
     [at |-> StrValue(IsoDate),    dt |-> [day |-> 1,  hour |-> 0,  minute |-> 0,  second |-> 0]],
     [at |-> StrValue(IsoSeconds), dt |-> [day |-> 55, hour |-> 18, minute |-> 30, second |-> 15]]}

ExpectedFireAt(at, now_) ==
    IF \E w \in WellFormedStamps : w.at = at
    THEN (CHOOSE w \in WellFormedStamps : w.at = at).dt
    ELSE [now_ EXCEPT !.minute = @ + 5]

\* C16: a remind action never fails on its timestamp: it creates exactly one
\* Reminder, with fire_at the parsed remind_at when it parses and now + 5
\* minutes when it is absent, not a string or malformed, with sent false, no
\* linked entry, and the idea (or else the note) as message.
C16_RemindNeverFailsOnTimestamp ==
    [][\A r \in Slots :
          RemindSteps(r) =>
              /\ Completes(r)
              /\ LastOutcome(r).action = "remind"
              /\ Len(reminders') = Len(reminders) + 1
              /\ SubSeq(reminders', 1, Len(reminders)) = reminders
              /\ LET new == reminders'[Len(reminders')]
                     ai  == CurrentResult(r)
                 IN  /\ new.fire_at = ExpectedFireAt(ai.remind_at, clock)
                     /\ new.sent = FALSE
                     /\ new.entry_id = None
                     /\ new.message = IF ai.idea \in {NULL, <<>>} THEN req[r].note
                                                                  ELSE ai.idea]_vars

\* a result with a malformed timestamp and no idea was answered with a
\* reminder five minutes from now carrying the note
C16_Witness ==
    /\ hist # <<>> /\ IsReturnTo(Len(hist), 1) /\ hist[Len(hist)].error = 0
    /\ hist[Len(hist)].ai_list[1].action = "remind"
    /\ hist[Len(hist)].ai_list[1].remind_at = StrValue(IsoMonth13)
    /\ hist[Len(hist)].ai_list[1].idea = NULL
    /\ Len(reminders) = 1
    /\ reminders[1].fire_at = [day |-> 0, hour |-> 8, minute |-> 5, second |-> 0]
    /\ reminders[1].message = hist[Len(hist)].note
    /\ ~reminders[1].sent

\* a result with a well-formed timestamp was answered with a reminder at it
RemindParsed ==
    /\ hist # <<>> /\ IsReturnTo(Len(hist), 1) /\ hist[Len(hist)].error = 0
    /\ hist[Len(hist)].ai_list[1].remind_at = StrValue(IsoSeconds)
    /\ Len(reminders) = 1
    /\ reminders[1].fire_at = [day |-> 55, hour |-> 18, minute |-> 30, second |-> 15]

(***************************************************************************)
(* Properties of add_note without the provider                             *)
(***************************************************************************)
\* event k is the response of an add_note request made while the provider
\* was unavailable
IsSkippedReturn(k) ==
    IsReturn(k) /\ hist[k].op = "add_note" /\ hist[k].ai_list = None

\* C17: when the provider is unavailable add_note never raises, whatever the
\* store holds: it returns a single Add outcome with ai_skipped true that
\* refers to a raw entry holding the note.
C17_AiSkippedNeverRaises ==
    \A k \in Events :
        IsSkippedReturn(k) =>
            /\ hist[k].error = 0
            /\ Len(hist[k].results) = 1
            /\ hist[k].results[1].action = "add"
            /\ hist[k].results[1].ai_skipped
            /\ hist[k].results[1].entry # None
            /\ hist[k].results[1].entry[1] \in hist[k].ids

\* the provider was unavailable, the store did not hold the note, and the
\* response is the raw entry with ai_skipped
AiSkippedOnFreshContent ==
    \E k \in Events :
        /\ IsSkippedReturn(k) /\ hist[k].error = 0
        /\ hist[k].results[1].ai_skipped
        /\ \E n \in 1..Len(entries) :
              /\ entries[n].id = hist[k].results[1].entry[1]
              /\ entries[n].content = hist[k].note
              /\ entries[n].summary = NULL /\ entries[n].status = "pending"

(***************************************************************************)
(* Properties of the recovery from a uniqueness conflict                   *)
(***************************************************************************)
\* request r takes the step that follows the IntegrityError of its insert
Requeries(r) == req[r].pc = "requery" /\ StepOf(r)

\* C18: a uniqueness conflict on insert is never surfaced as an error: the
\* re-query by content returns the pre-existing entry as the Add outcome,
\* also when the conflicting entry was deleted by a concurrent operation
\* between the failed insert and the re-query.
C18_ConflictNeverSurfaced ==
    [][\A r \in Slots :
          Requeries(r) =>
              /\ Completes(r)
              /\ LastOutcome(r).action = "add"
              /\ LastOutcome(r).entry # None]_vars

\* the re-query found the entry that holds the content and answered with it
ConflictRecovered ==
    \E r \in Slots :
        /\ req[r].results # <<>>
        /\ req[r].results[Len(req[r].results)].action = "add"
        /\ \E k \in Events :
              /\ IsReturn(k) /\ hist[k].op = "create_entry" /\ hist[k].error = 0
              /\ hist[k].ids = {1}
              /\ req[r].results[Len(req[r].results)].entry = Some(1)
              /\ hist[k].note = req[r].note
        /\ req[r].ai_list[1].idea = NULL

(***************************************************************************)
(* Properties of the scheduler                                             *)
(***************************************************************************)
\* the events at which a notification for reminder id was attempted
Notifications(id) == {k \in Events : hist[k].ev = "notify" /\ hist[k].reminder = id}

\* event k is the end of a run of _check_reminders
IsPollReturn(k) == IsReturn(k) /\ hist[k].op = "check_reminders"

\* C19: a due reminder is fired exactly once across repeated polls: its
\* notification is attempted in one poll only, also when delete_reminder or a
\* delete action runs between or during the polls.
C19_FiredExactlyOnce ==
    \A id \in 1..(nextReminderId - 1) : Cardinality(Notifications(id)) <= 1

\* no request was served from the start of the first poll on
PollsUndisturbed ==
    \A k \in Events :
        (hist[k].ev = "call" /\ hist[k].op = "check_reminders") =>
            \A j \in k..Len(hist) : hist[j].op = "check_reminders"

\* without a request running between or during the polls, no reminder is
\* notified twice, and a reminder notified is marked sent once the poll ends
FiredOnceUndisturbed ==
    PollsUndisturbed =>
        /\ C19_FiredExactlyOnce
        /\ poll.pc = "idle" =>
              \A n \in 1..Len(reminders) :
                  Notifications(reminders[n].id) # {} => reminders[n].sent

\* two polls ran one after the other; the first notified reminder 1, the
\* second found it sent and skipped it
SecondPollSkips ==
    /\ PollsUndisturbed /\ poll.pc = "idle"
    /\ Cardinality({k \in Events : IsPollReturn(k)}) = 2
    /\ Cardinality(Notifications(1)) = 1
    /\ reminders # <<>> /\ reminders[1].id = 1 /\ reminders[1].sent

\* a poll was rolled back after notifying reminder 1, and the next poll
\* notified it again
NotifiedAgainAfterRollback ==
    /\ Cardinality(Notifications(1)) = 2
    /\ \E k \in Events : IsPollReturn(k) /\ hist[k].error = 500

\* C20: sent is monotonic: a reminder is created with sent false, and no
\* step of any operation changes a reminder's sent from true to false.
C20_SentMonotonic ==
    [][/\ \A k \in 1..Len(reminders), j \in 1..Len(reminders') :
             (reminders[k].id = reminders'[j].id /\ reminders[k].sent) => reminders'[j].sent
       /\ \A j \in 1..Len(reminders') :
             reminders'[j].id \notin ReminderIds(reminders) => ~reminders'[j].sent]_vars

\* reminder 2 was marked sent by a poll; after that poll the clock advanced
\* and another poll marked reminder 1: both are sent
C20_Witness ==
    /\ Len(reminders) = 2
    /\ reminders[1].sent /\ reminders[2].sent
    /\ Cardinality({k \in Events : IsPollReturn(k) /\ hist[k].error = 0}) = 2
    /\ \E k \in Notifications(2), j \in Notifications(1) :
          \E n \in (k + 1)..(j - 1) : IsPollReturn(n)

\* the event at which the run of _check_reminders going on started
RunStart ==
    CHOOSE k \in Events :
        /\ hist[k].ev = "call" /\ hist[k].op = "check_reminders"
        /\ \A j \in (k + 1)..Len(hist) : ~(hist[j].ev = "call" /\ hist[j].op = "check_reminders")

\* the notifications attempted in the run going on
NotifiedInRun == {hist[k].reminder : k \in {j \in RunStart..Len(hist) : hist[j].ev = "notify"}}
UndeliveredInRun ==
    {hist[k].reminder :
        k \in {j \in RunStart..Len(hist) : hist[j].ev = "notify" /\ ~hist[j].delivered}}

\* the run going on commits
PollCommitsOk == poll.pc = "commit" /\ poll'.pc = "idle" /\ hist'[Len(hist')].error = 0

\* the run that attempted the notification at event k committed
CommittedAfter(k) ==
    \E n \in (k + 1)..Len(hist) :
        /\ IsPollReturn(n) /\ hist[n].error = 0
        /\ \A j \in (k + 1)..(n - 1) : ~IsPollReturn(j)

\* a notification is attempted in this step
Notifies(id) ==
    /\ poll.pc = "fire" /\ poll' # poll
    /\ poll.due[poll.k].id = id

\* C21: when the delivery of a due reminder's notification fails, the poll
\* still sets sent on it, still deletes its linked entry, still processes
\* the other due reminders of the run, and no later poll attempts it again.
C21_DeliveryFailureStillMarksSent ==
    [][/\ PollCommitsOk =>
             \A n \in 1..Len(poll.due) :
                 poll.due[n].id \in UndeliveredInRun =>
                     /\ \A j \in 1..Len(reminders') :
                           reminders'[j].id = poll.due[n].id => reminders'[j].sent
                     /\ poll.due[n].entry_id # None =>
                           poll.due[n].entry_id[1] \notin EntryIds(entries')
                     /\ \A m \in 1..Len(poll.due) : poll.due[m].id \in NotifiedInRun
       /\ \A id \in 1..(nextReminderId - 1) :
             Notifies(id) =>
                 ~\E k \in Notifications(id) : ~hist[k].delivered /\ CommittedAfter(k)]_vars

\* the delivery failed for reminder 1, which is linked to an entry, and
\* succeeded for reminder 2 in the same run; the run committed, reminder 1 is
\* sent, its entry is gone, and a later poll did not notify it again
C21_Witness ==
    /\ poll.pc = "idle"
    /\ Cardinality({k \in Events : IsPollReturn(k) /\ hist[k].error = 0}) = 2
    /\ Cardinality(Notifications(1)) = 1
    /\ \E k \in Notifications(1), j \in Notifications(2) :
          /\ ~hist[k].delivered /\ hist[j].delivered /\ k < j
          /\ ~\E n \in k..j : IsPollReturn(n)
          /\ 1 \in hist[k].ids
    /\ Len(reminders) = 2
    /\ reminders[1].id = 1 /\ reminders[1].sent /\ reminders[1].entry_id = Some(1)
    /\ reminders[2].sent
    /\ 1 \notin EntryIds(entries)

(***************************************************************************)
(* Properties of deletions racing with the scheduler                       *)
(***************************************************************************)
\* every reminder created so far is linked to entry 1, so that a
\* delete_reminder request removes the entry linked to the reminders the
\* scheduler fires
AllLinkedToEntry1 ==
    /\ \A q \in Slots : req[q].pc = "idle"
    /\ \A k \in Events :
          (IsReturn(k) /\ hist[k].op = "add_note" /\ hist[k].error = 0) =>
              /\ hist[k].results[1].action \in {"add", "delete"}
              /\ hist[k].results[1].action = "add" => hist[k].results[1].entry = Some(1)

\* a reminder that was fired and still exists is sent, and its entry is gone
FiredAreSettled ==
    \A n \in 1..Len(reminders) :
        Notifications(reminders[n].id) # {} =>
            /\ reminders[n].sent
            /\ reminders[n].entry_id # None =>
                  reminders[n].entry_id[1] \notin EntryIds(entries)

\* C22: when a poll firing a reminder races with a delete action or a
\* delete_reminder that removes the same linked entry or the reminder, the
\* poll does not fail, the request does not fail, and once the poll has
\* ended the entry is absent and the fired reminder, if it exists, is sent.
C22_DeleteRaceIdempotent ==
    AllLinkedToEntry1 =>
        /\ \A k \in Events : IsPollReturn(k) => hist[k].error = 0
        /\ \A k \in Events :
              (IsReturn(k) /\ hist[k].op = "delete_reminder") => hist[k].error \in {0, 404}
        /\ poll.pc = "idle" => FiredAreSettled

\* the linked entry was deleted by a delete action after the poll's query: the
\* poll found it gone, did not fail, and marked the reminder sent
PollToleratesEntryGone ==
    /\ poll.pc = "idle"
    /\ \E k \in Events : IsPollReturn(k) /\ hist[k].error = 0 /\ Notifications(1) # {}
    /\ \E k \in Events :
          /\ IsReturn(k) /\ hist[k].op = "add_note" /\ hist[k].error = 500
          /\ \E c \in 1..(k - 1), n \in Notifications(1) :
                /\ hist[c].ev = "call" /\ hist[c].op = "check_reminders"
                /\ c < k /\ k < n
    /\ Len(reminders) = 1 /\ reminders[1].sent
    /\ entries = <<>>

\* the part of C22 about the entry alone: when only requests that leave the
\* reminders in place run during the polls, no poll fails and the fired
\* reminders are settled
EntryRaceTolerated ==
    (\A k \in Events : hist[k].op # "delete_reminder") =>
        /\ \A k \in Events : IsPollReturn(k) => hist[k].error = 0
        /\ poll.pc = "idle" => FiredAreSettled

\* two reminders were linked to entry 1; delete_reminder removed reminder 2
\* and the entry during the poll; the poll was rolled back, and reminder 1,
\* which it had fired, is left unsent
FiredLeftUnsent ==
    /\ AllLinkedToEntry1 /\ poll.pc = "idle"
    /\ \E k \in Events : IsPollReturn(k) /\ hist[k].error = 500
    /\ Len(reminders) = 1 /\ reminders[1].id = 1 /\ ~reminders[1].sent
    /\ Notifications(1) # {}
    /\ \E k \in Events :
          IsReturn(k) /\ hist[k].op = "delete_reminder" /\ hist[k].reminder = 2
                      /\ hist[k].error = 0
    /\ entries = <<>>

(***************************************************************************)
(* Properties of the summarizer trigger                                    *)
(***************************************************************************)
\* the processed entries with a summary stored under exactly the pair
IdeasUnderPair(group, subgroup) ==
    Cardinality({k \in 1..Len(entries) :
                    /\ entries[k].status = "processed"
                    /\ OrEmpty(entries[k].summary) # <<>>
                    /\ EntryGroup(entries[k]) = OrEmpty(group)
                    /\ EntrySubgroup(entries[k]) = OrEmpty(subgroup)})

\* the summarization requests issued so far
SummaryRequests(h) == {k \in 1..Len(h) : h[k].ev = "summarize"}

\* request r has inserted an entry for its current result and exported it,
\* and now comes to the summarizer
AfterExportedInsert(r) ==
    /\ req[r].pc = "summarize"
    /\ \E k \in 1..Len(entries) :
          entries[k].id = req[r].db_entry /\ entries[k].status = "processed"

TenIdeasNoRequest ==
    /\ workload.slots = 1 /\ req[1].pc = "idle"
    /\ IdeasUnderPair(TxtGroup, NULL) = 10
    /\ IdeasUnderPair(TxtGroup, TxtSub) = 1
    /\ Len(entries) = 11
    /\ SummaryRequests(hist) = {}

\* C24: in every reachable state the group summaries hold at most one row per
\* (group, subgroup) pair, the pair without subgroup included, also when two
\* add_note requests summarize the same pair at the same time.
C24_OneSummaryRowPerPair ==
    \A k \in 1..Len(summaries), j \in 1..Len(summaries) :
        (/\ summaries[k].group_name = summaries[j].group_name
         /\ summaries[k].subgroup_name = summaries[j].subgroup_name) => k = j

\* the part of C24 about adds one after another: while a single request is
\* served at a time, a pair never gets a second row
OneRowPerPairSequential ==
    workload.slots = 1 => C24_OneSummaryRowPerPair

\* a pair summarized twice by adds one after another: its row was updated
SummaryRowUpdated ==
    /\ workload.slots = 1 /\ req[1].pc = "idle"
    /\ Cardinality(SummaryRequests(hist)) = 2
    /\ Len(summaries) = 1 /\ IdeasUnderPair(TxtGroup, NULL) = 12

\* two requests that ran at the same time have both returned their Add, and
\* the pair without subgroup has two rows
TwoRowsForOnePair ==
    /\ \A q \in Slots : req[q].pc = "idle"
    /\ Len(summaries) = 2
    /\ summaries[1].group_name = TxtGroup /\ summaries[2].group_name = TxtGroup
    /\ summaries[1].subgroup_name = NULL /\ summaries[2].subgroup_name = NULL
    /\ \A k \in Events : IsReturn(k) => hist[k].error = 0

(***************************************************************************)
(* Properties of add_note as a whole                                       *)
(***************************************************************************)
\* the triggers that failed in the request whose response is the event at k
FailedTriggers(k) ==
    {j \in 1..(k - 1) :
        /\ hist[j].ev = "trigger_failed" /\ hist[j].r = hist[k].r
        /\ \A c \in (j + 1)..(k - 1) : ~(IsCall(c) /\ hist[c].r = hist[k].r)}

IsAddNoteReturn(k) == IsReturn(k) /\ hist[k].op = "add_note" /\ hist[k].r \in Slots

\* the response at k carries one outcome per result, and the entries its Add
\* outcomes refer to are in the store
PrimaryOutcomeKept(k) ==
    /\ hist[k].error = 0
    /\ Len(hist[k].results) >= Len(hist[k].ai_list)
    /\ \A n \in 1..Len(hist[k].ai_list) :
          (hist[k].results[n].action = "add" /\ hist[k].results[n].entry # None) =>
              hist[k].results[n].entry[1] \in hist[k].ids

\* C25: when the summarizer or the creation of the automatic reminder fails
\* (no answer of the provider, or an error of the store), add_note still
\* returns the outcomes of its results and the entries written are kept.
C25_TriggerFailuresSwallowed ==
    \A k \in Events :
        (IsAddNoteReturn(k) /\ FailedTriggers(k) # {}) => PrimaryOutcomeKept(k)

\* the part of C25 about the summarizer: its failures leave the response as
\* it would have been
SummarizerFailuresSwallowed ==
    \A k \in Events :
        (/\ IsAddNoteReturn(k) /\ FailedTriggers(k) # {}
         /\ \A j \in FailedTriggers(k) : hist[j].op # "_maybe_auto_reminder") =>
            PrimaryOutcomeKept(k)

\* the commit of the summarizer raised, and the request returned its Add
SummarizerCommitFailed ==
    \E k \in Events :
        /\ IsAddNoteReturn(k) /\ hist[k].error = 0
        /\ \E j \in FailedTriggers(k) : hist[j].op = "_maybe_auto_summarize"
        /\ hist[k].results[1].action = "add"
        /\ summaries = <<>>

\* the commit of the automatic reminder raised: the request ended with
\* status 500 while the entry it had added is stored
AutoReminderFailureRaised ==
    \E k \in Events :
        /\ IsAddNoteReturn(k) /\ hist[k].error = 500
        /\ \E j \in FailedTriggers(k) : hist[j].op = "_maybe_auto_reminder"
        /\ Len(entries) = SummaryThreshold + 1
        /\ entries[Len(entries)].status = "processed"
        /\ reminders = <<>>

\* the rows of the store with the id
RowsOf(es, id) == {k \in 1..Len(es) : es[k].id = id}

ExportFailures(h) == {k \in 1..Len(h) : h[k].ev = "export"}

\* request r has inserted an entry and is past the export
PastExport(r) == req[r].pc \in {"summarize", "summary_query", "summary_commit"}

\* C26: when the export fails after the Add pipeline inserted an entry, the
\* entry stays in the store as it was inserted (status pending, unless a
\* discard_entry has discarded it meanwhile) and without destination
\* through the rest of the pipeline, which still returns an Add outcome that
\* refers to it; the entry becomes processed only in an export step that
\* succeeded.
C26_ExportFailureKeepsPendingEntry ==
    [][/\ \A r \in Slots :
             (req[r].pc = "export" /\ StepOf(r)) =>
                 /\ RowsOf(entries', req[r].db_entry) # {}
                 /\ \A k \in RowsOf(entries', req[r].db_entry) :
                       IF ExportFailures(hist') # ExportFailures(hist)
                       THEN entries'[k] = entries[k] /\ entries'[k].destination = NULL
                       ELSE entries'[k].status = "processed"
                 /\ \A k \in RowsOf(entries, req[r].db_entry) :
                       entries[k].status \in {"pending", "discarded"}
       /\ \A r \in Slots :
             (PastExport(r) /\ StepOf(r)) =>
                 /\ \A k \in RowsOf(entries, req[r].db_entry) :
                       /\ k \in RowsOf(entries', req[r].db_entry)
                       /\ entries'[k] = entries[k]
                 /\ Completes(r) =>
                       /\ LastOutcome(r).action = "add"
                       /\ LastOutcome(r).entry = Some(req[r].db_entry)
       /\ \A k \in 1..Len(entries) :
             (entries[k].status = "pending" /\ k <= Len(entries')
                /\ entries'[k].id = entries[k].id /\ entries'[k].status = "processed") =>
                 \E r \in Slots :
                    /\ req[r].pc = "export" /\ req[r].db_entry = entries[k].id
                    /\ ExportFailures(hist') = ExportFailures(hist)]_vars

\* add_note returned an Add outcome for an entry whose export had failed:
\* the entry is stored, pending, without destination
C26_Witness ==
    \E k \in Events :
        /\ IsAddNoteReturn(k) /\ hist[k].error = 0
        /\ \E j \in ExportFailures(hist) : j < k /\ hist[j].r = hist[k].r
        /\ hist[k].results[1].action = "add"
        /\ hist[k].results[1].entry # None
        /\ \E n \in RowsOf(entries, hist[k].results[1].entry[1]) :
              entries[n].status = "pending" /\ entries[n].destination = NULL

\* the actions of the outcomes request r has collected
OutcomeActions(r) == {req[r].results[k].action : k \in 1..Len(req[r].results)}

\* the response of add_note logged by the step
Response == hist'[Len(hist')]

\* C27: add_note creates an automatic reminder only when some outcome of the
\* submission is Add and none is Remind; otherwise it adds no Reminder row
\* and appends no outcome. A submission gets at most one automatic
\* reminder, with one outcome appended for it.
C27_AutoReminderOnlyForAddWithoutRemind ==
    [][\A r \in Slots :
          (req[r].pc = "auto_reminder" /\ StepOf(r)) =>
              /\ Len(reminders') \in {Len(reminders), Len(reminders) + 1}
              /\ SubSeq(reminders', 1, Len(reminders)) = reminders
              /\ Response.ev = "return" /\ Response.r = r
              /\ Response.error = 0 =>
                    /\ SubSeq(Response.results, 1, Len(req[r].results)) = req[r].results
                    /\ Len(Response.results) - Len(req[r].results)
                          = Len(reminders') - Len(reminders)
                    /\ Len(reminders') > Len(reminders) =>
                          Response.results[Len(Response.results)].action = "remind"
              /\ ~("add" \in OutcomeActions(r) /\ "remind" \notin OutcomeActions(r)) =>
                    /\ reminders' = reminders
                    /\ Response.results = req[r].results]_vars

\* a note with a time of day gave an Add and a Remind outcome: the response
\* has the two outcomes and the only reminder is the one the provider asked for
C27_Witness ==
    \E k \in Events :
        /\ IsAddNoteReturn(k) /\ hist[k].error = 0
        /\ _auto_fire_at(hist[k].note, Now0) # None
        /\ Len(hist[k].results) = 2
        /\ hist[k].results[1].action = "add" /\ hist[k].results[1].entry # None
        /\ hist[k].results[2].action = "remind"
        /\ Len(reminders) = 1 /\ reminders[1].entry_id = None

\* two Add outcomes and a time of day: one automatic reminder, one outcome
\* appended
OneAutoReminderForTwoAdds ==
    \E k \in Events :
        /\ IsAddNoteReturn(k) /\ hist[k].error = 0
        /\ Len(hist[k].results) = 3
        /\ hist[k].results[1].action = "add" /\ hist[k].results[2].action = "add"
        /\ hist[k].results[3].action = "remind"
        /\ Len(reminders) = 1 /\ reminders[1].entry_id = hist[k].results[1].entry

\* the outcome o is the one of the kind the result ai asks for
OutcomeMatches(o, ai, note) ==
    IF ~ai.makes_sense THEN o.action = "ignored"
    ELSE IF ai.action = "delete" THEN o.action = "delete" /\ o.idea = ai.idea
    ELSE IF ai.action = "remind" THEN o.action = "remind"
    ELSE /\ o.action = "add" /\ o.entry # None
         /\ o.idea = OrNull(AddFields(ai, note).summary)

\* C28: for n results of the provider add_note returns a list whose first n
\* outcomes answer the n results position by position, followed by at most
\* one Remind outcome of its own; the results are processed in the
\* provider's order, and an outcome, once produced, is not changed by the
\* processing of the results after it.
C28_OutcomesMirrorResults ==
    [][\A r \in Slots :
          (req[r].pc # "idle" /\ StepOf(r)) =>
              /\ req'[r].pc # "idle" =>
                    /\ Len(req'[r].results) \in {Len(req[r].results), Len(req[r].results) + 1}
                    /\ SubSeq(req'[r].results, 1, Len(req[r].results)) = req[r].results
                    /\ req'[r].ai_list = req[r].ai_list
              /\ Completes(r) =>
                    /\ Len(req'[r].results) = req[r].i
                    /\ req'[r].i = req[r].i + 1
                    /\ OutcomeMatches(LastOutcome(r), CurrentResult(r), req[r].note)
              /\ (req'[r].pc = "idle" /\ Response.error = 0) =>
                    /\ Len(req[r].results) = Len(req[r].ai_list)
                    /\ SubSeq(Response.results, 1, Len(req[r].ai_list)) = req[r].results
                    /\ Len(Response.results) <= Len(req[r].ai_list) + 1
                    /\ Len(Response.results) = Len(req[r].ai_list) + 1 =>
                          Response.results[Len(Response.results)].action = "remind"]_vars

\* a note answered with a senseless result and then a result to add: the
\* response is the Ignore outcome, the Add outcome, and the automatic reminder
C28_Witness ==
    \E k \in Events :
        /\ IsAddNoteReturn(k) /\ hist[k].error = 0
        /\ Len(hist[k].ai_list) = 2 /\ Len(hist[k].results) = 3
        /\ ~hist[k].ai_list[1].makes_sense
        /\ hist[k].results[1].action = "ignored"
        /\ hist[k].results[2].action = "add"
        /\ hist[k].results[3].action = "remind"

\* the call of the request slot r is serving
LastCallOf(r) ==
    CHOOSE c \in Events :
        /\ IsCall(c) /\ hist[c].r = r
        /\ \A j \in (c + 1)..Len(hist) : ~(IsCall(j) /\ hist[j].r = r)

\* requests are served one at a time and nothing else touches the store
\* while one is served
OneAtATime == workload.slots = 1 /\ workload.polls = 0 /\ workload.others = 0

\* the step ends request r with an error status after it had processed at
\* least one result
FailsAfterEarlierResults(r) ==
    /\ req[r].pc # "idle" /\ req'[r].pc = "idle"
    /\ Response.ev = "return" /\ Response.error # 0
    /\ Len(req[r].results) >= 1

\* the reminders written for the Remind outcomes among outs
RemindersFor(rs, outs) ==
    {n \in 1..Len(rs) :
        \E k \in 1..Len(outs) :
            /\ outs[k].action = "remind"
            /\ rs[n].message = outs[k].idea /\ Some(rs[n].fire_at) = outs[k].remind_at}

\* C29: when the processing of a later result fails and add_note raises,
\* nothing of what the earlier results of the note wrote remains: no entry
\* inserted since the call, no reminder created for an earlier outcome.
\* (An earlier result never deletes: a deletion that removes something ends
\* the request.)
C29_FailedSubmissionLeavesNothing ==
    [][\A r \in Slots :
          (OneAtATime /\ FailsAfterEarlierResults(r)) =>
              /\ EntryIds(entries') \ IdsBefore(LastCallOf(r)) = {}
              /\ RemindersFor(reminders', req[r].results) = {}]_vars

\* the first result asked for a reminder, the second deleted an entry and the
\* request ended with status 500: the reminder is in the store
ReminderSurvivesFailure ==
    /\ OneAtATime /\ req[1].pc = "idle"
    /\ \E k \in Events :
          /\ IsAddNoteReturn(k) /\ hist[k].error = 500
          /\ Len(hist[k].ai_list) = 2
          /\ hist[k].ai_list[1].action = "remind" /\ hist[k].ai_list[2].action = "delete"
          /\ Len(hist[k].results) = 1 /\ hist[k].results[1].action = "remind"
    /\ Len(reminders) = 1 /\ entries = <<>>

\* the first result added an entry whose export failed, the second deleted
\* another entry and the request ended with status 500: the entry added is
\* in the store
EntrySurvivesFailure ==
    /\ OneAtATime /\ req[1].pc = "idle"
    /\ \E k \in Events :
          /\ IsAddNoteReturn(k) /\ hist[k].error = 500
          /\ Len(hist[k].results) = 1 /\ hist[k].results[1].action = "add"
          /\ hist[k].results[1].entry # None
          /\ hist[k].results[1].entry[1] \in EntryIds(entries)
          /\ hist[k].results[1].entry[1] \notin IdsBefore(LastCallOf(1))

(***************************************************************************)
(* Properties of removal                                                   *)
(***************************************************************************)
\* the step is the commit of a delete action, or one of the scheduler
DeleteActionOrScheduler ==
    \/ \E r \in Slots : req[r].pc = "delete_commit" /\ StepOf(r)
    \/ poll' # poll

\* C30: an entry leaves the store only through a delete action or through
\* the scheduler firing a reminder linked to it; every other operation
\* (discard_entry, delete_group, delete_subgroup, delete_reminder among them)
\* leaves the set of stored entry ids as it was.
C30_HardDeleteOnlyByDeleteOrFiring ==
    [][EntryIds(entries) \ EntryIds(entries') # {} => DeleteActionOrScheduler]_vars

\* the part of C30 about the three removal handlers: they leave the ids, the
\* contents and the order of the entries as they were, and change statuses
\* to "discarded" only
DiscardHandlersKeepEntries ==
    [][(Len(hist') > Len(hist)
          /\ Response.op \in {"discard_entry", "delete_group", "delete_subgroup"}) =>
            /\ Len(entries') = Len(entries)
            /\ \A k \in 1..Len(entries) :
                  \/ entries'[k] = entries[k]
                  \/ entries'[k] = [entries[k] EXCEPT !.status = "discarded"]]_vars

\* delete_subgroup alone discarded the entry of the subgroup, which is still
\* stored
SubgroupDiscarded ==
    /\ Len(entries) = 1 /\ entries[1].status = "discarded"
    /\ entries[1].destination # NULL
    /\ \E k \in Events : IsReturn(k) /\ hist[k].op = "delete_subgroup"
    /\ \A k \in Events : hist[k].op \notin {"discard_entry", "delete_group"}

\* delete_reminder has removed the entry an automatic reminder was linked to
EntryRemovedByDeleteReminder ==
    /\ workload.polls = 0
    /\ \E k \in Events :
          /\ IsReturn(k) /\ hist[k].op = "delete_reminder" /\ hist[k].error = 0
          /\ hist[k - 1].ids \ hist[k].ids # {}
    /\ \A k \in Events : IsAddNoteReturn(k) => hist[k].results[1].action = "add"

(***************************************************************************)
(* The scheduler under fairness                                            *)
(***************************************************************************)
\* the reminder id is stored, unsent, and its moment has come
DueUnsent(id) ==
    \E k \in 1..Len(reminders) :
       /\ reminders[k].id = id /\ ~reminders[k].sent
       /\ Seconds(reminders[k].fire_at) <= Seconds(clock)

\* the reminder id is stored with sent = True, and the entry it is linked
\* to, if any, is not in the store
FiredAndEntryRemoved(id) ==
    \E k \in 1..Len(reminders) :
       /\ reminders[k].id = id /\ reminders[k].sent
       /\ reminders[k].entry_id # None =>
             reminders[k].entry_id[1] \notin EntryIds(entries)

\* C31: with the scheduler run fairly, a stored reminder that is unsent and
\* due is later marked sent, its linked entry gone from the store, unless
\* the reminder itself is deleted first.
C31_DueReminderEventuallyFired ==
    \A id \in 1..MaxNotes :
       DueUnsent(id) ~> (id \notin ReminderIds(reminders) \/ FiredAndEntryRemoved(id))

\* an automatic reminder became due a day after its note, the scheduler
\* marked it sent and removed the entry it was linked to, after a request
\* had deleted another reminder
C31_Witness ==
    /\ workload.live /\ clock.day = 1
    /\ \E k \in 1..Len(reminders) :
          /\ reminders[k].sent /\ reminders[k].entry_id # None
          /\ reminders[k].fire_at.day = 0 /\ reminders[k].fire_at.hour = 18
          /\ reminders[k].entry_id[1] \notin EntryIds(entries)
    /\ \E k \in Events : IsReturn(k) /\ hist[k].op = "delete_reminder" /\ hist[k].error = 0

(***************************************************************************)
(* What a run of the scheduler leaves alone                                *)
(***************************************************************************)
\* the step is one of _check_reminders
PollStep == Len(hist') > Len(hist) /\ Response.op = "check_reminders"

\* the reminder is already sent, or its moment has not come
SentOrNotDue(x) == x.sent \/ Seconds(x.fire_at) > Seconds(clock)

\* the step notifies nobody of reminder x and leaves its row as it is
ReminderUntouched(x) ==
    /\ \A j \in (Len(hist) + 1)..Len(hist') :
          ~(hist'[j].ev = "notify" /\ hist'[j].reminder = x.id)
    /\ \E j \in 1..Len(reminders') : reminders'[j] = x

\* the step leaves the entry reminder x is linked to in the store
LinkedEntryKept(x) ==
    (x.entry_id # None /\ x.entry_id[1] \in EntryIds(entries)) =>
        \E j \in 1..Len(entries') :
           \E k \in 1..Len(entries) :
              entries[k].id = x.entry_id[1] /\ entries'[j] = entries[k]

\* C32: a step of the scheduler attempts no notification for a reminder that
\* is sent or not yet due, keeps its row, and keeps the entry it is linked
\* to; a run whose query finds no due reminder leaves the store as it is.
C32_PollLeavesOthersUntouched ==
    [][PollStep =>
         /\ \A k \in 1..Len(reminders) :
               SentOrNotDue(reminders[k]) =>
                  ReminderUntouched(reminders[k]) /\ LinkedEntryKept(reminders[k])
         /\ (poll.pc = "idle" /\ DueReminders(reminders, clock) = <<>>) =>
               UNCHANGED storeVars]_vars

\* the parts of C32 about the reminders themselves and about the run that
\* finds nothing due
PollKeepsOtherReminders ==
    [][PollStep =>
         /\ \A k \in 1..Len(reminders) :
               SentOrNotDue(reminders[k]) => ReminderUntouched(reminders[k])
         /\ (poll.pc = "idle" /\ DueReminders(reminders, clock) = <<>>) =>
               UNCHANGED storeVars]_vars

\* the part of C32 about linked entries, for reminders that do not share
\* their entry with another reminder
PollKeepsEntriesOfOthers ==
    [][PollStep =>
         \A k \in 1..Len(reminders) :
            (/\ SentOrNotDue(reminders[k])
             /\ \A j \in 1..Len(reminders) :
                   reminders[j].entry_id = reminders[k].entry_id => j = k) =>
                LinkedEntryKept(reminders[k])]_vars

\* a run of the scheduler found nothing due while an unsent reminder was
\* waiting, and left it and its entry in the store
WaitingReminderKept ==
    /\ \E k \in Events : IsPollReturn(k) /\ hist[k].error = 0
    /\ \A k \in Events : hist[k].op \in {"add_note", "check_reminders"}
    /\ Len(reminders) = 1 /\ ~reminders[1].sent
    /\ reminders[1].entry_id = Some(1) /\ EntryIds(entries) = {1}

\* the scheduler fired reminder 1 and removed entry 1, to which reminder 2,
\* unsent and not yet due, is linked as well
EntryOfWaitingReminderRemoved ==
    /\ \A k \in Events : hist[k].op \in {"add_note", "check_reminders"}
    /\ \A k \in Events : IsPollReturn(k) => hist[k].error = 0
    /\ Len(reminders) = 2 /\ entries = <<>>
    /\ reminders[1].sent /\ reminders[1].entry_id = Some(1)
    /\ ~reminders[2].sent /\ reminders[2].entry_id = Some(1)
    /\ Seconds(reminders[2].fire_at) > Seconds(clock)
    /\ Notifications(2) = {}

(***************************************************************************)
(* The tag path after a rename                                             *)
(***************************************************************************)
\* the tag string the Add pipeline computes for (group, subgroup)
AddTags(group, subgroup) ==
    ai_result_to_entry_fields([group |-> group, subgroup |-> subgroup, idea |-> NULL]).tags

RenameStep ==
    Len(hist') > Len(hist) /\ Response.op \in {"rename_group", "rename_subgroup"}

Renames == {k \in Events : IsReturn(k) /\ hist[k].op \in {"rename_group", "rename_subgroup"}}

\* the processed entries filed under the pair of result ai whose summary is
\* similar to the one an Add for ai and note keeps
SimilarUnderPair(ai, note) ==
    {k \in 1..Len(entries) :
        /\ entries[k].status = "processed"
        /\ EntryGroup(entries[k]) = OrEmpty(ai.group)
        /\ EntrySubgroup(entries[k]) = OrEmpty(ai.subgroup)
        /\ _similar(OrEmpty(entries[k].summary), AddFields(ai, note).summary)}

\* the step is the Dedup Guard of request r, for a result with a subgroup
\* or without
GuardStep(r, with_subgroup) ==
    /\ req[r].pc = "dispatch" /\ StepOf(r)
    /\ Dispatch(CurrentResult(r)) = "add"
    /\ (OrEmpty(CurrentResult(r).subgroup) # <<>>) = with_subgroup

\* C33: a rename leaves in every entry with a subgroup it rewrites the tag
\* string the Add pipeline computes for the entry's group and subgroup, and
\* after a rename an Add whose pair holds a processed entry with a similar
\* summary is answered with an existing entry, nothing being inserted.
C33_RenameKeepsTagEncoding ==
    [][/\ RenameStep =>
            \A k \in 1..Len(entries) :
               (entries'[k] # entries[k] /\ Len(TagParts(entries'[k].tags)) >= 2) =>
                   entries'[k].tags = AddTags(EntryGroup(entries'[k]),
                                              EntrySubgroup(entries'[k]))
       /\ \A r \in Slots :
             (/\ GuardStep(r, TRUE) /\ Renames # {}
              /\ SimilarUnderPair(CurrentResult(r), req[r].note) # {}) =>
                 /\ Completes(r)
                 /\ LastOutcome(r).entry # None
                 /\ LastOutcome(r).entry[1] \in EntryIds(entries)]_vars

\* the same for entries and results without a subgroup
RenameKeepsGroupEncoding ==
    [][/\ RenameStep =>
            \A k \in 1..Len(entries) :
               (entries'[k] # entries[k] /\ Len(TagParts(entries'[k].tags)) = 1) =>
                   entries'[k].tags = AddTags(EntryGroup(entries'[k]), NULL)
       /\ \A r \in Slots :
             (/\ GuardStep(r, FALSE) /\ Renames # {}
              /\ SimilarUnderPair(CurrentResult(r), req[r].note) # {}) =>
                 /\ Completes(r)
                 /\ LastOutcome(r).entry # None
                 /\ LastOutcome(r).entry[1] \in EntryIds(entries)]_vars

\* rename_group moved the entry of group g to h, and the Add of the same
\* idea under h was answered with that entry
RenamedGroupDeduplicated ==
    /\ Renames # {} /\ Len(entries) = 1 /\ entries[1].tags = TxtNewName
    /\ \E k \in Events :
          /\ IsAddNoteReturn(k) /\ hist[k].error = 0
          /\ \E j \in Renames : j < k
          /\ hist[k].ai_list[1].group = TxtNewName
          /\ hist[k].results[1].entry = Some(1)

\* rename_group moved the entry of (g, s) to (h, s), stored as "h, s"; the
\* Add of the same idea under (h, s) then inserted a second entry, tagged
\* "h,s"
RenamedPairDuplicated ==
    /\ Len(entries) = 2
    /\ entries[1].tags = <<"h", ",", " ", "s">> /\ entries[2].tags = <<"h", ",", "s">>
    /\ entries[1].status = "processed" /\ entries[2].status = "processed"
    /\ _similar(entries[1].summary, entries[2].summary)

(***************************************************************************)
(* The Dedup Guard for an Add without a summary                            *)
(***************************************************************************)
\* the step is the Dedup Guard of request r for an Add whose summary ended
\* up empty
EmptySummaryGuardStep(r) ==
    /\ req[r].pc = "dispatch" /\ StepOf(r)
    /\ Dispatch(CurrentResult(r)) = "add"
    /\ AddFields(CurrentResult(r), req[r].note).summary = <<>>

\* the processed entries under the tag path of the current result of r
SameTagPath(r) ==
    ProcessedWithTags(entries, AddFields(CurrentResult(r), req[r].note).tags)

\* the entry the step answers with
AnsweredEntry(r) ==
    CHOOSE e \in {entries[k] : k \in 1..Len(entries)} : Some(e.id) = LastOutcome(r).entry

\* C34: the Dedup Guard answers an Add whose summary is empty with an
\* existing entry only if that entry's summary is empty after normalization;
\* when every processed entry of the tag path has a summary, the Add goes on
\* to insert an entry whose content is the raw note.
C34_EmptySummaryMatchesOnlyEmpty ==
    [][\A r \in Slots :
         EmptySummaryGuardStep(r) =>
            /\ Completes(r) => _normalize(OrEmpty(AnsweredEntry(r).summary)) = <<>>
            /\ (\A k \in 1..Len(SameTagPath(r)) :
                    _normalize(OrEmpty(SameTagPath(r)[k].summary)) # <<>>) =>
                  /\ req'[r].pc = "insert"
                  /\ req'[r].content_to_store = req[r].note]_vars

\* the same when the summaries of the tag path are at most three
\* characters long after normalization
EmptySummaryPassesShortSummaries ==
    [][\A r \in Slots :
         (/\ EmptySummaryGuardStep(r)
          /\ \A k \in 1..Len(SameTagPath(r)) :
                Len(_normalize(OrEmpty(SameTagPath(r)[k].summary))) \in 1..3) =>
            /\ req'[r].pc = "insert"
            /\ req'[r].content_to_store = req[r].note]_vars

\* an Add without a summary went on to insert although its tag path held
\* a processed entry, one with a summary of three characters
EmptySummaryInserted ==
    \E r \in Slots :
       /\ req[r].pc = "insert" /\ req[r].summary = <<>>
       /\ req[r].content_to_store = req[r].note
       /\ ProcessedWithTags(entries, req[r].tags) # <<>>
       /\ \A k \in 1..Len(entries) : Len(_normalize(OrEmpty(entries[k].summary))) = 3

\* an Add without a summary was answered with an entry whose summary is not
\* empty
EmptySummaryAnsweredWithIdea ==
    \E k \in Events :
       /\ IsAddNoteReturn(k) /\ hist[k].error = 0
       /\ Len(hist[k].results) = 1
       /\ hist[k].results[1].action = "add" /\ hist[k].results[1].idea = NULL
       /\ \E j \in 1..Len(entries) :
             /\ hist[k].results[1].entry = Some(entries[j].id)
             /\ entries[j].id \in IdsBefore(k)
             /\ _normalize(OrEmpty(entries[j].summary)) # <<>>

(***************************************************************************)
(* Entries that are pending or discarded                                   *)
(***************************************************************************)
Visible(es) == SelectSeq(es, LAMBDA e : e.status = "processed")

StatusOf(id) ==
    {entries[k].status : k \in {j \in 1..Len(entries) : entries[j].id = id}}

\* the Dedup Guard of request r answers with a processed entry only
GuardAnswersProcessed(r) ==
    (/\ req[r].pc = "dispatch" /\ StepOf(r) /\ Completes(r)
     /\ Dispatch(CurrentResult(r)) = "add") =>
        /\ LastOutcome(r).entry # None
        /\ StatusOf(LastOutcome(r).entry[1]) = {"processed"}

\* the resolver of a delete action matches processed entries only
DeleteMatchesProcessed(r) ==
    (req[r].pc = "dispatch" /\ req'[r].pc = "delete_commit") =>
        \A k \in 1..Len(req'[r].deleted) :
           StatusOf(req'[r].deleted[k].id) = {"processed"}

\* the commit of a delete action removes processed entries only
DeleteRemovesProcessed(r) ==
    (req[r].pc = "delete_commit" /\ StepOf(r)) =>
        \A id \in EntryIds(entries) \ EntryIds(entries') : StatusOf(id) = {"processed"}

\* the summarizer is asked exactly when the processed entries with an idea
\* under the pair are more than the threshold
SummarizerCountsProcessed(r) ==
    (req[r].pc = "summarize" /\ StepOf(r)) =>
        ((Len(hist') > Len(hist)) <=>
            /\ OrEmpty(CurrentResult(r).group) # <<>>
            /\ IdeasUnderPair(CurrentResult(r).group, CurrentResult(r).subgroup)
                  > SummaryThreshold)

\* the snapshot sent to the classifier is the one of the store without its
\* pending and discarded entries
SnapshotOfProcessed ==
    (/\ Len(hist') > Len(hist) /\ Response.ev = "call" /\ Response.op = "add_note"
     /\ Response.ai_list # None) =>
        Response.existing_groups = _build_existing_groups_AnyStatus(Visible(entries))

\* the four group handlers leave pending and discarded entries as they are
GroupHandlersKeepHidden ==
    (/\ Len(hist') > Len(hist)
     /\ Response.op \in {"delete_group", "delete_subgroup", "rename_group",
                          "rename_subgroup"}) =>
        /\ Len(entries') = Len(entries)
        /\ \A k \in 1..Len(entries) :
              entries[k].status # "processed" => entries'[k] = entries[k]

\* C35: a pending or discarded entry is never returned by the Dedup Guard,
\* never matched and never removed by a delete action, never counted by the
\* summarizer, never in the snapshot sent to the classifier, and never
\* rewritten by delete_group, delete_subgroup, rename_group, rename_subgroup.
C35_HiddenEntriesInvisible ==
    [][/\ \A r \in Slots :
             /\ GuardAnswersProcessed(r)
             /\ DeleteMatchesProcessed(r)
             /\ DeleteRemovesProcessed(r)
             /\ SummarizerCountsProcessed(r)
       /\ SnapshotOfProcessed
       /\ GroupHandlersKeepHidden]_vars

\* C35 without the commit of the delete action
HiddenEntriesNeverRead ==
    [][/\ \A r \in Slots :
             /\ GuardAnswersProcessed(r)
             /\ DeleteMatchesProcessed(r)
             /\ SummarizerCountsProcessed(r)
       /\ SnapshotOfProcessed
       /\ GroupHandlersKeepHidden]_vars

\* a delete action matched an entry, discard_entry discarded an entry before
\* the action's commit, and the commit left no discarded entry in the store:
\* the entry it removed was the discarded one
DiscardedEntryRemovedByDelete ==
    /\ workload.slots = 1 /\ Len(hist) >= 4
    /\ hist[Len(hist)].op = "add_note" /\ hist[Len(hist)].ev = "return"
    /\ hist[Len(hist)].error = 500 /\ Len(hist[Len(hist)].ai_list) = 1
    /\ hist[Len(hist)].ai_list[1].action = "delete"
    /\ hist[Len(hist) - 1].op = "discard_entry" /\ hist[Len(hist) - 1].ev = "return"
    /\ hist[Len(hist) - 1].error = 0
    /\ hist[Len(hist) - 3].op = "add_note" /\ hist[Len(hist) - 3].ev = "call"
    /\ hist[Len(hist) - 1].ids \ hist[Len(hist)].ids # {}
    /\ \A k \in 1..Len(entries) : entries[k].status = "processed"

\* an entry was discarded, and the Add of a similar idea under its tags
\* inserted a new entry, after a snapshot that leaves the discarded entry out
DiscardedEntryPassedOver ==
    /\ \E j \in 1..Len(entries), k \in 1..Len(entries) :
          /\ entries[j].status = "discarded" /\ entries[k].status = "processed"
          /\ entries[j].id < entries[k].id /\ entries[j].tags = entries[k].tags
          /\ _similar(entries[j].summary, entries[k].summary)
          /\ \E c \in Events :
                /\ IsCall(c) /\ hist[c].op = "add_note"
                /\ entries[j].id \in IdsBefore(c) /\ entries[k].id \notin IdsBefore(c)
                /\ Len(hist[c].existing_groups) = 1
                /\ \A n \in 1..Len(hist[c].existing_groups[1].ideas) :
                      hist[c].existing_groups[1].ideas[n] # entries[j].summary
    /\ \E c \in Events : IsReturn(c) /\ hist[c].op = "discard_entry" /\ hist[c].error = 0

(***************************************************************************)
(* Automatic reminders of a note submitted again                           *)
(***************************************************************************)
\* the unsent reminders linked to entry id
UnsentLinkedTo(id) ==
    {k \in 1..Len(reminders) : ~reminders[k].sent /\ reminders[k].entry_id = Some(id)}

\* C36: however often a note with a time of day is submitted, the entry its
\* Adds resolve to has at most one unsent reminder linked to it.
C36_OneUnsentReminderPerEntry ==
    \A k \in 1..Len(entries) : Cardinality(UnsentLinkedTo(entries[k].id)) <= 1

\* a single submission leaves at most one unsent reminder linked to an entry
OneReminderPerSubmission ==
    NumCalls({"add_note"}) <= 1 =>
        \A k \in 1..Len(entries) : Cardinality(UnsentLinkedTo(entries[k].id)) <= 1

\* a note with a time of day was submitted and its entry got an automatic
\* reminder
FirstSubmissionReminded ==
    /\ NumCalls({"add_note"}) = 1 /\ \A q \in Slots : req[q].pc = "idle"
    /\ Len(entries) = 1 /\ entries[1].status = "processed"
    /\ Cardinality(UnsentLinkedTo(entries[1].id)) = 1

\* the same note was submitted twice with the same answer, the second Add
\* was answered with the entry of the first by the Dedup Guard, and two
\* unsent reminders are linked to that entry
TwoUnsentRemindersForOneEntry ==
    /\ Len(entries) = 1 /\ entries[1].status = "processed"
    /\ Cardinality(UnsentLinkedTo(entries[1].id)) = 2
    /\ \E j \in Events, k \in Events :
          /\ j < k /\ IsAddNoteReturn(j) /\ IsAddNoteReturn(k)
          /\ hist[j].error = 0 /\ hist[k].error = 0
          /\ hist[j].note = hist[k].note /\ hist[j].ai_list = hist[k].ai_list
          /\ hist[j].results[1].entry = Some(entries[1].id)
          /\ hist[k].results[1].entry = Some(entries[1].id)
          /\ \A n \in (j + 1)..(k - 1) : hist[n].ev # "export"
          /\ \A n \in 1..j : hist[n].ev # "export"
    /\ \A n \in Events : hist[n].op = "add_note"

====
